---- MODULE Spec2Model ----
(***************************************************************************)
(* Client-aided execution of an HE computation graph by HESealExecutable   *)
(* (src/src/seal/he_seal_executable.cpp).                                   *)
(*                                                                         *)
(* Three processes are modelled:                                           *)
(*   - the main thread, which runs call(): server_setup, the wait for the  *)
(*     client inputs, parameter binding, the node loop with the offloaded  *)
(*     Relu / BoundedRelu / MaxPool ops, and send_client_results;          *)
(*   - the session thread (m_message_handling_thread), which runs the      *)
(*     asynchronous accept handler, handle_message and the socket writes;  *)
(*   - the client on the other side of the TCP connection.                 *)
(* The main thread is cut at every blocking wait and between statements    *)
(* that touch state shared with the session thread; handlers of the        *)
(* session thread are single steps.                                        *)
(* The dispatch of one node by generate_calls is modelled on its own       *)
(* (DispatchSpec), over every operator id of the switch.                   *)
(* The node loop of call() with its tensor map and free lists              *)
(* (LivenessSpec), the add kernel of src/src/CMakeLists.txt on slots and   *)
(* tensors (KernelSpec) and the ciphertext add on one coefficient limb     *)
(* (LimbSpec) are modelled on their own as well.                           *)
(* So are match_modulus_and_scale_inplace on scaled ciphertexts            *)
(* (ScaleSpec), the binding of a parameter by call() (BindSpec), the       *)
(* construction, save and load of HESealEncryptionParameters (ParmsSpec)   *)
(* and the ciphertext handles held during client-aided ops (HandleSpec).   *)
(* Further specifications vary one part of these: a client that sends     *)
(* Relu results nobody asked for (ResultSpec), kernels that raise inside   *)
(* generate_calls (RaiseSpec), accepts that fail (AcceptSpec),             *)
(* set_batch_size (BatchSpec), scalar_add_seal on a ciphertext and a       *)
(* plaintext (MixedSpec), parse_config_or_use_default (ConfigSpec) and the *)
(* batches a Relu / BoundedRelu ships (ShipSpec).                          *)
(***************************************************************************)
EXTENDS Integers, Sequences, FiniteSets, TLC

----------------------------------------------------------------------------
(* Bounds of the model *)

\* batched_element_count of the client tensor
NumSlots == 3
\* slots per relu request (max_relu_message_cnt, 1000 in the source, scaled)
max_relu_message_cnt == 2
\* slots per chunk of a client input tensor
ChunkSize == 2
\* invocations of call() on the executable
NumCalls == 2
\* op nodes of a function between its parameters and its Result
NumOpNodes == 3
\* shape {BatchDim, NumElems} of the tensors of an Add node
BatchDim == 2
NumElems == 3
\* largest plaintext vector handed to scalar_add_seal
MaxPlainSize == 2
\* chain index of a fresh ciphertext (first_parms_id)
MaxChainIndex == 2
\* bits of a coefficient limb word: std::uint64_t, scaled down
WordBits == 4
\* most products one output slot of a Dot accumulates
MaxAccum == 5
\* most chain primes by which a scale is above or below the nominal scale
MaxScaleSteps == 1

----------------------------------------------------------------------------
(* Values *)

Plain(v) == [tag |-> "plain", val |-> v]
Cipher(v) == [tag |-> "cipher", val |-> v]

\* value carried by slot i of the client tensor: one negative value, the rest
\* distinct positive values
InputVal(i) == IF i = 1 THEN -1 ELSE i - 1

\* alpha of the BoundedRelu nodes of the graph
Alpha == 1

Max2(a, b) == IF a >= b THEN a ELSE b
Min2(a, b) == IF a <= b THEN a ELSE b

RECURSIVE MaxOfSeq(_)
MaxOfSeq(s) == IF Len(s) = 1 THEN s[1] ELSE Max2(s[1], MaxOfSeq(Tail(s)))

\* scalar_relu_seal / scalar_bounded_relu_seal on a plaintext value
ScalarRelu(v) == Max2(v, 0)
ScalarBoundedRelu(v, alpha) == Min2(Max2(v, 0), alpha)

ReluFn(fn, v) == IF fn = "Relu" THEN ScalarRelu(v) ELSE ScalarBoundedRelu(v, Alpha)

----------------------------------------------------------------------------
(* The function: parameters, the chain of offloaded ops, one Result *)

ParamNames == <<"p0", "p1">>
NumParams == Len(ParamNames)

\* from_client annotation of the parameters; check_client_supports_function
\* requires at least one parameter from the client.  The graph's ops read p0.
FromClientChoices == { <<TRUE, TRUE>>, <<TRUE, FALSE>> }

Graphs == { <<"Relu", "BoundedRelu">>, <<"MaxPool", "Relu">>, <<"BoundedRelu", "MaxPool">> }

\* using_keyswitching() of the SEAL context
KeyswitchingChoices == BOOLEAN

----------------------------------------------------------------------------
(* Tensors and messages *)

\* default-constructed HEType: an empty plaintext
EmptySlot == [tag |-> "empty", val |-> 0]

\* a null std::shared_ptr<HETensor>
NullTensor == [isnull |-> TRUE, data |-> <<>>, write_count |-> 0]

Tensor(data, cnt) == [isnull |-> FALSE, data |-> data, write_count |-> cnt]

\* HETensor::done_loading: every slot has been written
DoneLoading(t) == t.write_count = Len(t.data)

PbTensor(name, offset, total, data) ==
  [name |-> name, offset |-> offset, total |-> total, data |-> data]

Message(type, pk, evk, enc, fn, tensors) ==
  [type |-> type, pk |-> pk, evk |-> evk, enc |-> enc, fn |-> fn, tensors |-> tensors]

EncryptionParametersMsg == Message("RESPONSE", FALSE, FALSE, TRUE, "", <<>>)
PublicKeyMsg == Message("RESPONSE", TRUE, FALSE, FALSE, "", <<>>)
EvalKeyMsg == Message("RESPONSE", FALSE, TRUE, FALSE, "", <<>>)

SeqOfSet(S) == CHOOSE s \in [1..Cardinality(S) -> S] : \A i, j \in 1..Cardinality(S) : i < j => s[i] < s[j]

SubSeqSafe(s, a, b) == IF a > b THEN <<>> ELSE SubSeq(s, a, b)

\* the slots at the given indices of a tensor's data
Gather(data, idxs) == [k \in 1..Len(idxs) |-> data[idxs[k]]]

----------------------------------------------------------------------------
VARIABLES
  graph,                    \* the offloaded ops of the function, in topological order
  fromClient,               \* from_client annotation of each parameter
  keyswitching,             \* m_context->using_keyswitching()
  pc,                       \* position of the main thread
  callNo,                   \* invocations of call() begun
  nodeIdx,                  \* node of the graph being executed
  arg,                      \* data of the input tensor of the current node
  he_inputs,                \* tensors bound to the parameters by the current call
  sendPos,                  \* unknown slots batched so far (relu) / cells finished (max pool)
  m_server_setup,
  m_session_started,
  m_sent_inference_shape,
  m_client_public_key_set,
  m_client_eval_key_set,
  m_client_inputs,          \* storage of the client-input table
  tableSized,               \* m_client_inputs.size() = number of parameters (0 before)
  m_client_inputs_received,
  m_batch_size,
  m_relu_data,
  m_unknown_relu_idx,
  m_relu_done_count,
  m_max_pool_data,
  m_max_pool_done,
  m_client_outputs,
  acceptor,                 \* "none", "armed" (async_accept pending), "done"
  session,                  \* "none", "open", "closed"
  proc,                     \* "running", "terminated" (std::terminate / crash)
  outbox,                   \* the session's write queue (is_writing iff non-empty)
  toClient,                 \* bytes on the wire, server to client
  toServer,                 \* bytes on the wire, client to server
  cpc,                      \* position of the client
  clientInput,              \* data the client sent for p0
  clientResults,            \* result tensors the client has received
  faulty,                   \* the client has sent a malformed message
  opReq,                    \* offload requests written by the current op
  opResp,                   \* offload responses handled for the current op
  reluStored,               \* slots of m_relu_data stored by handle_relu_result in this op
  sentSlots,                \* input slot indices shipped to the client by the current op
  sessionWrites,            \* members written by the session thread while a call runs
  inputsCall                \* the call during which m_client_inputs_received was last set

\* one invocation of generate_calls on a node
VARIABLES
  node_type,                \* node.get_type_info(), by name
  enable_client,            \* enable_client() of the executable the node belongs to
  lazy_mod,                 \* m_he_seal_backend.lazy_mod()
  checks_ok,                \* the node's shapes and arguments pass the case's NGRAPH_CHECKs
  dispatch                  \* what generate_calls did: status, kernels called, out[0] written

generateCallsVars == <<node_type, enable_client, lazy_mod, checks_ok, dispatch>>

\* the node loop of call() over m_nodes and its tensor map
VARIABLES
  m_nodes,                  \* the ordered ops, each with its liveness_free_list
  tensor_map,               \* entries [key: descriptor tensor, name: name of the HETensor]
  node_pos,                 \* position of the loop in m_nodes
  lookup,                   \* "ok", or "out_of_range" once tensor_map.at has thrown
  erased                    \* keys erased from tensor_map so far

livenessVars == <<m_nodes, tensor_map, node_pos, lookup, erased>>

\* one invocation of a kernel on its operand and output slots
VARIABLES
  k_arg0,                   \* slots of operand 0
  k_arg1,                   \* slots of operand 1
  k_out,                    \* slots of the output
  k_flags,                  \* how the operands were built
  k_status,                 \* "none" before the kernel, then "ok" or the error
  k_pre,                    \* operands and output as they were before the kernel
  smallest_ind              \* what match_to_smallest_chain_index returned

kernelVars == <<k_arg0, k_arg1, k_out, k_flags, k_status, k_pre, smallest_ind>>

\* one coefficient limb of the ciphertexts of scalar_add_seal
VARIABLES
  l_family,                 \* "call": one direct call; "dot": the sum of a Dot
  l_q,                      \* the coefficient modulus of the limb
  l_arg0,                   \* limb of operand 0
  l_arg1,                   \* limb of operand 1
  l_out,                    \* limb of the output
  l_alias,                  \* the operand the output is the same object as
  l_count,                  \* canonical limbs summed into the output
  l_sum,                    \* their sum over the integers
  l_phase,                  \* "idle", "ready", "added", "acc", "closed"
  l_pre                     \* the limbs before the last call

limbVars == <<l_family, l_q, l_arg0, l_arg1, l_out, l_alias, l_count, l_sum,
              l_phase, l_pre>>

\* everything outside the client-aided protocol
\* one call of match_modulus_and_scale_inplace on two ciphertexts
VARIABLES
  s_arg0,                   \* first argument
  s_arg1,                   \* second argument
  s_status,                 \* "none" before the call, then "ok" or the error
  s_pre                     \* the arguments as they were before the call

scaleVars == <<s_arg0, s_arg1, s_status, s_pre>>

\* the binding of one parameter by call()
VARIABLES
  b_enable,                 \* enable_client()
  b_annotation,             \* the parameter's HEOpAnnotations
  b_server,                 \* server_inputs[input_idx]
  b_client,                 \* m_client_inputs[input_idx]
  b_input,                  \* he_input, with the vector it was taken from
  b_status,                 \* "none" before the binding, then its outcome
  b_pre                     \* the server and the client tensor before the binding

bindVars == <<b_enable, b_annotation, b_server, b_client, b_input, b_status, b_pre>>

\* HESealEncryptionParameters: construction, save and load
VARIABLES
  p_args,                   \* the arguments of the constructor
  p_parms,                  \* the constructed object
  p_status,                 \* "none", then "ok" or the error of the constructor
  p_stream,                 \* the bytes save() wrote
  p_loaded,                 \* the object load() returned
  p_load_status,            \* "none", then "ok" or the error of load()
  p_level                   \* a call of seal_security_level: its argument and result

parmsVars == <<p_args, p_parms, p_status, p_stream, p_loaded, p_load_status, p_level>>

\* the ciphertext handles held during one client-aided op; a ciphertext slot
\* Cipher(h) holds the handle h
VARIABLES
  h_op,                     \* "Relu" or "MaxPool"
  h_pc,                     \* position in the op
  h_arg,                    \* data of the input tensor (tensor map)
  h_out,                    \* data of the output tensor (tensor map)
  h_request,                \* data of relu_tensor / max_pool_tensor while it lives
  h_buffer,                 \* m_relu_data / m_max_pool_data
  h_unknown,                \* m_unknown_relu_idx
  h_pos,                    \* slots batched so far / cells requested so far
  h_done,                   \* m_relu_done_count
  h_next,                   \* ciphertext handles handed out so far
  h_count                   \* ops begun

handleVars == <<h_op, h_pc, h_arg, h_out, h_request, h_buffer, h_unknown, h_pos, h_done,
                h_next, h_count>>

utilVars == <<scaleVars, bindVars, parmsVars, handleVars>>

dispatchVars == <<generateCallsVars, livenessVars, kernelVars, limbVars, utilVars>>

staticVars == <<graph, fromClient, keyswitching>>
mainVars == <<pc, callNo, nodeIdx, arg, he_inputs, sendPos>>
flagVars == <<m_server_setup, m_session_started, m_sent_inference_shape,
              m_client_public_key_set, m_client_eval_key_set>>
inputVars == <<m_client_inputs, tableSized, m_client_inputs_received, m_batch_size>>
reluVars == <<m_relu_data, m_unknown_relu_idx, m_relu_done_count>>
poolVars == <<m_max_pool_data, m_max_pool_done>>
netVars == <<acceptor, session, outbox, toClient, toServer>>
clientVars == <<cpc, clientInput, clientResults, faulty>>
histVars == <<opReq, opResp, reluStored, sentSlots, sessionWrites, inputsCall>>

vars == <<staticVars, mainVars, flagVars, inputVars, reluVars, poolVars,
          m_client_outputs, netVars, proc, clientVars, histVars, dispatchVars>>

----------------------------------------------------------------------------
(* Construction: HESealExecutable::HESealExecutable *)

ExecutableInit ==
  /\ graph \in Graphs
  /\ fromClient \in FromClientChoices
  /\ keyswitching \in KeyswitchingChoices
  /\ pc = "idle"
  /\ callNo = 0
  /\ nodeIdx = 0
  /\ arg = <<>>
  /\ he_inputs = <<>>
  /\ sendPos = 0
  /\ m_server_setup = FALSE
  /\ m_session_started = FALSE
  /\ m_sent_inference_shape = FALSE
  /\ m_client_public_key_set = FALSE
  /\ m_client_eval_key_set = ~keyswitching
  /\ m_client_inputs = [i \in 1..NumParams |-> NullTensor]
  /\ tableSized = FALSE
  /\ m_client_inputs_received = FALSE
  /\ m_batch_size = 1
  /\ m_relu_data = <<>>
  /\ m_unknown_relu_idx = <<>>
  /\ m_relu_done_count = 0
  /\ m_max_pool_data = <<>>
  /\ m_max_pool_done = FALSE
  /\ m_client_outputs = <<>>
  /\ acceptor = "none"
  /\ session = "none"
  /\ proc = "running"
  /\ outbox = <<>>
  /\ toClient = <<>>
  /\ toServer = <<>>
  /\ cpc = "connect"
  /\ clientInput = <<>>
  /\ clientResults = <<>>
  /\ faulty = FALSE
  /\ opReq = 0
  /\ opResp = 0
  /\ reluStored = {}
  /\ sentSlots = {}
  /\ sessionWrites = {}
  /\ inputsCall = 0

\* no node has been dispatched
NoDispatch ==
  [status |-> "none", kernels |-> <<>>, out_written |-> FALSE, lazy_entry |-> FALSE]

\* generate_calls is not running
DispatchIdle ==
  /\ node_type = "Parameter"
  /\ enable_client = TRUE
  /\ lazy_mod = FALSE
  /\ checks_ok = TRUE
  /\ dispatch = NoDispatch

\* the node loop is not running
LivenessIdle ==
  /\ m_nodes = <<>>
  /\ tensor_map = {}
  /\ node_pos = 0
  /\ lookup = "ok"
  /\ erased = {}

\* no kernel is running
NoFlags == [family |-> "none", arg1_encrypted |-> FALSE, arg2_encrypted |-> FALSE,
            complex_packing |-> FALSE, arg1_packed |-> FALSE, arg2_packed |-> FALSE]

KernelIdle ==
  /\ k_arg0 = <<>>
  /\ k_arg1 = <<>>
  /\ k_out = <<>>
  /\ k_flags = NoFlags
  /\ k_status = "none"
  /\ k_pre = <<>>
  /\ smallest_ind = 0

ScaleIdle ==
  /\ s_arg0 = <<>>
  /\ s_arg1 = <<>>
  /\ s_status = "none"
  /\ s_pre = <<>>

BindIdle ==
  /\ b_enable = FALSE
  /\ b_annotation = <<>>
  /\ b_server = <<>>
  /\ b_client = <<>>
  /\ b_input = <<>>
  /\ b_status = "none"
  /\ b_pre = <<>>

ParmsIdle ==
  /\ p_args = <<>>
  /\ p_parms = <<>>
  /\ p_status = "none"
  /\ p_stream = <<>>
  /\ p_loaded = <<>>
  /\ p_load_status = "none"
  /\ p_level = <<>>

HandleIdle ==
  /\ h_op = "none"
  /\ h_pc = "done"
  /\ h_arg = <<>>
  /\ h_out = <<>>
  /\ h_request = <<>>
  /\ h_buffer = <<>>
  /\ h_unknown = <<>>
  /\ h_pos = 0
  /\ h_done = 0
  /\ h_next = 0
  /\ h_count = 0

UtilIdle == ScaleIdle /\ BindIdle /\ ParmsIdle /\ HandleIdle

LimbIdle ==
  /\ l_family = "none"
  /\ l_q = 0
  /\ l_arg0 = 0
  /\ l_arg1 = 0
  /\ l_out = 0
  /\ l_alias = "none"
  /\ l_count = 0
  /\ l_sum = 0
  /\ l_phase = "idle"
  /\ l_pre = <<>>

Init ==
  /\ ExecutableInit
  /\ DispatchIdle
  /\ LivenessIdle
  /\ KernelIdle
  /\ UtilIdle
  /\ LimbIdle

----------------------------------------------------------------------------
(* Helpers of the main thread *)

Running == proc = "running"

\* TCPSession::write_message: queue the message on the session's write queue
WriteMessage(box, msg) == Append(box, msg)

\* variants of the wait predicates that do not wait
MaxPoolWaitPred_NoWait(done) == TRUE
ReluWaitPred_NoWait(done, unknown) == TRUE

\* predicates of the condition-variable waits
SessionStartedPred(started) == started
ClientInputsWaitPred(received) == received
ReluWaitPred(done, unknown) == done = Len(unknown)
MaxPoolWaitPred(done) == done
\* variant of ResultWaitPred that does not wait for the write queue to drain
ResultWaitPred_NoWait(box) == TRUE

ResultWaitPred(box) == box = <<>>

\* the tensor a server-provided parameter is bound to
ServerInput == Tensor([k \in 1..NumSlots |-> Plain(InputVal(k))], NumSlots)

\* call(): the tensor bound to parameter i
BoundTensor(inputs, i) == IF fromClient[i] THEN inputs[i] ELSE ServerInput

IsCiphertext(slot) == slot.tag = "cipher"
IsPlaintext(slot) == slot.tag # "cipher"

\* variant of UnknownReluIdx that takes every slot
UnknownReluIdx_All(data) == SeqOfSet(1..Len(data))

\* handle_server_relu_op: m_unknown_relu_idx, the ciphertext slots in increasing order
UnknownReluIdx(data) == SeqOfSet({i \in 1..Len(data) : IsCiphertext(data[i])})

\* handle_server_relu_op: m_relu_data after the resize and the pass over the
\* known (plaintext) values; fn is the node's op
KnownReluData(prev, data, fn) ==
  [i \in 1..Len(data) |->
     IF IsPlaintext(data[i])
       THEN (IF data[i].tag = "plain" THEN Plain(ReluFn(fn, data[i].val)) ELSE EmptySlot)
       ELSE (IF i <= Len(prev) THEN prev[i] ELSE EmptySlot)]

\* variant of ReluBatchIdx that ships one slot per request
ReluBatchIdx_Single(unknown, pos) == SubSeqSafe(unknown, pos + 1, pos + 1)

\* handle_server_relu_op: the indices of the next batch, given the number of
\* unknown slots batched so far
ReluBatchIdx(unknown, pos) ==
  SubSeqSafe(unknown, pos + 1, Min2(pos + max_relu_message_cnt, Len(unknown)))

ReluRequest(fn, data, idxs) ==
  Message("REQUEST", FALSE, FALSE, FALSE, fn,
          <<PbTensor("relu", 0, Len(idxs), Gather(data, idxs))>>)

\* max_pool_seal_max_list for a 1-D pooling of window 2 and stride 1: the
\* input indices compared for each output cell
MaximizeLists(n) == [k \in 1..(n - 1) |-> <<k, k + 1>>]

MaxPoolRequest(data, idxs) ==
  Message("REQUEST", FALSE, FALSE, FALSE, "MaxPool",
          <<PbTensor("max_pool", 0, Len(idxs), Gather(data, idxs))>>)

ResultMsg(data) ==
  Message("RESPONSE", FALSE, FALSE, FALSE, "", <<PbTensor("result", 0, Len(data), data)>>)

----------------------------------------------------------------------------
(* Main thread: call() *)

\* variant of ServerSetupNeeded that sets the server up on every call
ServerSetupNeeded_EveryCall(setup) == TRUE

\* server_setup(): the body runs only while m_server_setup is not set
ServerSetupNeeded(setup) == ~setup

\* call() up to and including start_server() of server_setup()
CallBegin ==
  /\ UNCHANGED dispatchVars
  /\ Running /\ pc = "idle" /\ callNo < NumCalls
  /\ callNo' = callNo + 1
  /\ IF ServerSetupNeeded(m_server_setup)
       THEN /\ acceptor' = "armed"
            /\ pc' = "setup_wait"
       ELSE /\ acceptor' = acceptor
            /\ pc' = "inputs_wait"
  /\ UNCHANGED <<staticVars, nodeIdx, arg, he_inputs, sendPos, flagVars, inputVars,
                 reluVars, poolVars, m_client_outputs, session, outbox, toClient,
                 toServer, proc, clientVars, histVars>>

\* server_setup(): leave the wait on m_session_cond, write the encryption
\* parameters, set m_server_setup
SetupWriteParameters ==
  /\ UNCHANGED dispatchVars
  /\ Running /\ pc = "setup_wait"
  /\ SessionStartedPred(m_session_started)
  /\ outbox' = WriteMessage(outbox, EncryptionParametersMsg)
  /\ m_server_setup' = TRUE
  /\ pc' = "setup_resize"
  /\ UNCHANGED <<staticVars, callNo, nodeIdx, arg, he_inputs, sendPos, m_session_started,
                 m_sent_inference_shape, m_client_public_key_set, m_client_eval_key_set,
                 inputVars, reluVars, poolVars, m_client_outputs, acceptor, session,
                 toClient, toServer, proc, clientVars, histVars>>

\* server_setup(): m_client_inputs.clear(); m_client_inputs.resize(#parameters)
SetupResize ==
  /\ UNCHANGED dispatchVars
  /\ Running /\ pc = "setup_resize"
  /\ m_client_inputs' = [i \in 1..NumParams |-> NullTensor]
  /\ tableSized' = TRUE
  /\ pc' = "inputs_wait"
  /\ UNCHANGED <<staticVars, callNo, nodeIdx, arg, he_inputs, sendPos, flagVars,
                 m_client_inputs_received, m_batch_size, reluVars, poolVars,
                 m_client_outputs, netVars, proc, clientVars, histVars>>

\* call(): leave the wait on m_client_inputs_cond
InputsWaitDone ==
  /\ UNCHANGED dispatchVars
  /\ Running /\ pc = "inputs_wait"
  /\ ClientInputsWaitPred(m_client_inputs_received)
  /\ pc' = "bind"
  /\ UNCHANGED <<staticVars, callNo, nodeIdx, arg, he_inputs, sendPos, flagVars, inputVars,
                 reluVars, poolVars, m_client_outputs, netVars, proc, clientVars, histVars>>

\* call(): bind every parameter and fill the tensor map.  A null client
\* tensor is dereferenced before the null check: the call crashes or fails.
BindParameters ==
  /\ UNCHANGED dispatchVars
  /\ Running /\ pc = "bind"
  /\ IF \E i \in 1..NumParams : fromClient[i] /\ m_client_inputs[i].isnull
       THEN /\ \E outcome \in {"crashed", "failed"} :
                 /\ pc' = outcome
                 /\ proc' = IF outcome = "crashed" THEN "terminated" ELSE proc
            /\ UNCHANGED <<nodeIdx, arg, he_inputs>>
       ELSE /\ he_inputs' = [i \in 1..NumParams |-> BoundTensor(m_client_inputs, i)]
            /\ arg' = he_inputs'[1].data
            /\ nodeIdx' = 1
            /\ pc' = "node"
            /\ proc' = proc
  /\ UNCHANGED <<staticVars, callNo, sendPos, flagVars, inputVars, reluVars, poolVars,
                 m_client_outputs, netVars, clientVars, histVars>>

CurrentOp == IF nodeIdx \in 1..Len(graph) THEN graph[nodeIdx] ELSE "Result"

\* handle_server_relu_op up to the first request
ReluStart ==
  /\ UNCHANGED dispatchVars
  /\ Running /\ pc = "node" /\ CurrentOp \in {"Relu", "BoundedRelu"}
  /\ m_relu_data' = KnownReluData(m_relu_data, arg, CurrentOp)
  /\ m_unknown_relu_idx' = UnknownReluIdx(arg)
  /\ sendPos' = 0
  /\ pc' = IF m_unknown_relu_idx' = <<>> THEN "relu_wait" ELSE "relu_send"
  /\ opReq' = 0 /\ opResp' = 0 /\ reluStored' = {} /\ sentSlots' = {}
  /\ UNCHANGED <<staticVars, callNo, nodeIdx, arg, he_inputs, flagVars, inputVars,
                 m_relu_done_count, poolVars, m_client_outputs, netVars, proc,
                 clientVars, sessionWrites, inputsCall>>

\* handle_server_relu_op: process_unknown_relu_ciphers_batch on the next batch
ReluSendBatch ==
  /\ UNCHANGED dispatchVars
  /\ Running /\ pc = "relu_send"
  /\ LET idxs == ReluBatchIdx(m_unknown_relu_idx, sendPos) IN
       /\ outbox' = WriteMessage(outbox, ReluRequest(CurrentOp, arg, idxs))
       /\ sendPos' = sendPos + Len(idxs)
       /\ sentSlots' = sentSlots \cup {idxs[k] : k \in 1..Len(idxs)}
       /\ opReq' = opReq + 1
       /\ pc' = IF sendPos' >= Len(m_unknown_relu_idx) THEN "relu_wait" ELSE "relu_send"
  /\ UNCHANGED <<staticVars, callNo, nodeIdx, arg, he_inputs, flagVars, inputVars,
                 reluVars, poolVars, m_client_outputs, acceptor, session, toClient,
                 toServer, proc, clientVars, opResp, reluStored, sessionWrites, inputsCall>>

\* handle_server_relu_op: leave the wait on m_relu_cond and assemble the output
ReluWaitDone ==
  /\ UNCHANGED dispatchVars
  /\ Running /\ pc = "relu_wait"
  /\ ReluWaitPred(m_relu_done_count, m_unknown_relu_idx)
  /\ m_relu_done_count' = 0
  /\ arg' = m_relu_data
  /\ nodeIdx' = nodeIdx + 1
  /\ pc' = "node"
  /\ UNCHANGED <<staticVars, callNo, he_inputs, sendPos, flagVars, inputVars, m_relu_data,
                 m_unknown_relu_idx, poolVars, m_client_outputs, netVars, proc,
                 clientVars, histVars>>

\* handle_server_max_pool_op up to the first request
MaxPoolStart ==
  /\ UNCHANGED dispatchVars
  /\ Running /\ pc = "node" /\ CurrentOp = "MaxPool"
  /\ m_max_pool_done' = FALSE
  /\ m_max_pool_data' = <<>>
  /\ sendPos' = 0
  /\ pc' = "mp_send"
  /\ opReq' = 0 /\ opResp' = 0 /\ reluStored' = {} /\ sentSlots' = {}
  /\ UNCHANGED <<staticVars, callNo, nodeIdx, arg, he_inputs, flagVars, inputVars,
                 reluVars, m_client_outputs, netVars, proc, clientVars, sessionWrites, inputsCall>>

\* handle_server_max_pool_op: the request for the next output cell
MaxPoolSendCell ==
  /\ UNCHANGED dispatchVars
  /\ Running /\ pc = "mp_send"
  /\ LET idxs == MaximizeLists(Len(arg))[sendPos + 1] IN
       /\ outbox' = WriteMessage(outbox, MaxPoolRequest(arg, idxs))
       /\ sentSlots' = sentSlots \cup {idxs[k] : k \in 1..Len(idxs)}
  /\ opReq' = opReq + 1
  /\ pc' = "mp_wait"
  /\ UNCHANGED <<staticVars, callNo, nodeIdx, arg, he_inputs, sendPos, flagVars, inputVars,
                 reluVars, poolVars, m_client_outputs, acceptor, session, toClient,
                 toServer, proc, clientVars, opResp, reluStored, sessionWrites, inputsCall>>

\* handle_server_max_pool_op: leave the wait on m_max_pool_cond; after the
\* last cell, out->data() = m_max_pool_data
MaxPoolWaitDone ==
  /\ UNCHANGED dispatchVars
  /\ Running /\ pc = "mp_wait"
  /\ MaxPoolWaitPred(m_max_pool_done)
  /\ m_max_pool_done' = FALSE
  /\ sendPos' = sendPos + 1
  /\ IF sendPos' = Len(MaximizeLists(Len(arg)))
       THEN /\ arg' = m_max_pool_data
            /\ nodeIdx' = nodeIdx + 1
            /\ pc' = "node"
       ELSE /\ UNCHANGED <<arg, nodeIdx>>
            /\ pc' = "mp_send"
  /\ UNCHANGED <<staticVars, callNo, he_inputs, flagVars, inputVars, reluVars,
                 m_max_pool_data, m_client_outputs, netVars, proc, clientVars, histVars>>

\* call(): the Result node; m_client_outputs = op_inputs
ResultNode ==
  /\ UNCHANGED dispatchVars
  /\ Running /\ pc = "node" /\ CurrentOp = "Result"
  /\ m_client_outputs' = <<arg>>
  /\ pc' = "send_results"
  /\ UNCHANGED <<staticVars, callNo, nodeIdx, arg, he_inputs, sendPos, flagVars, inputVars,
                 reluVars, poolVars, netVars, proc, clientVars, histVars>>

\* send_client_results(): write the result message
SendClientResults ==
  /\ UNCHANGED dispatchVars
  /\ Running /\ pc = "send_results"
  /\ outbox' = WriteMessage(outbox, ResultMsg(m_client_outputs[1]))
  /\ pc' = "result_wait"
  /\ UNCHANGED <<staticVars, callNo, nodeIdx, arg, he_inputs, sendPos, flagVars, inputVars,
                 reluVars, poolVars, m_client_outputs, acceptor, session, toClient,
                 toServer, proc, clientVars, histVars>>

\* send_client_results(): leave the wait on is_writing_cond; call() returns true
ResultWaitDone ==
  /\ UNCHANGED dispatchVars
  /\ Running /\ pc = "result_wait"
  /\ ResultWaitPred(outbox)
  /\ pc' = "idle"
  /\ UNCHANGED <<staticVars, callNo, nodeIdx, arg, he_inputs, sendPos, flagVars, inputVars,
                 reluVars, poolVars, m_client_outputs, netVars, proc, clientVars, histVars>>

----------------------------------------------------------------------------
(* Session thread: accept_connection, TCPSession writes, handle_message *)

W(var, lock) == [var |-> var, lock |-> lock]

\* accept_connection(): the async_accept handler without error
AcceptConnection ==
  /\ UNCHANGED dispatchVars
  /\ Running /\ acceptor = "armed" /\ cpc = "connect"
  /\ acceptor' = "done"
  /\ session' = "open"
  /\ m_session_started' = TRUE
  /\ cpc' = "wait_params"
  /\ sessionWrites' = sessionWrites \cup {W("m_session_started", "m_session_mutex")}
  /\ UNCHANGED <<staticVars, mainVars, m_server_setup, m_sent_inference_shape,
                 m_client_public_key_set, m_client_eval_key_set, inputVars, reluVars,
                 poolVars, m_client_outputs, outbox, toClient, toServer, proc,
                 clientInput, clientResults, faulty, opReq, opResp, reluStored, sentSlots,
                 inputsCall>>

\* TCPSession: the head of the write queue goes onto the wire
SessionWrite ==
  /\ UNCHANGED dispatchVars
  /\ Running /\ session = "open" /\ outbox # <<>>
  /\ toClient' = Append(toClient, Head(outbox))
  /\ outbox' = Tail(outbox)
  /\ UNCHANGED <<staticVars, mainVars, flagVars, inputVars, reluVars, poolVars,
                 m_client_outputs, acceptor, session, toServer, proc, clientVars, histVars>>

\* send_inference_shape(): one HETensor per parameter from the client
InferenceShapeRequest ==
  Message("REQUEST", FALSE, FALSE, FALSE, "Parameter",
          [k \in 1..Len(SeqOfSet({i \in 1..NumParams : fromClient[i]})) |->
             PbTensor(ParamNames[SeqOfSet({i \in 1..NumParams : fromClient[i]})[k]],
                      0, NumSlots, <<>>)])

\* variant of ShouldSendInferenceShape that does not look at the relin key
ShouldSendInferenceShape_NoEvalKey(sent, pk, evk) == ~sent /\ pk

\* handle_message: the condition under which send_inference_shape() is called
ShouldSendInferenceShape(sent, pk, evk) == ~sent /\ pk /\ evk

\* handle_message: the function names a RESPONSE may carry
KnownFunctionNames == {"Relu", "BoundedRelu", "MaxPool"}

\* variant of ReluResultIndex that ignores the results already stored
ReluResultIndex_NoOffset(unknown, done, k) == unknown[k]

\* handle_relu_result: the slot of m_relu_data that result k (1-based) is stored in
ReluResultIndex(unknown, done, k) == unknown[k + done]

\* handle_relu_result: every index it uses lies in m_unknown_relu_idx and m_relu_data
ReluResultInRange(data, unknown, done, cnt) ==
  /\ cnt + done <= Len(unknown)
  /\ \A k \in 1..cnt : ReluResultIndex(unknown, done, k) \in 1..Len(data)

\* handle_relu_result: m_relu_data after the results are stored
StoreReluResults(data, unknown, done, results) ==
  [i \in 1..Len(data) |->
     IF \E k \in 1..Len(results) : ReluResultIndex(unknown, done, k) = i
       THEN results[CHOOSE k \in 1..Len(results) : ReluResultIndex(unknown, done, k) = i]
       ELSE data[i]]

\* variant of HandleReluResultWrites without the lock_guard
HandleReluResultWrites_NoLock ==
  {W("m_relu_data", "none"), W("m_relu_done_count", "none")}

\* members handle_relu_result writes, with the mutex held
HandleReluResultWrites ==
  {W("m_relu_data", "m_relu_mutex"), W("m_relu_done_count", "m_relu_mutex")}

\* members handle_max_pool_result writes, with the mutex held
HandleMaxPoolResultWrites ==
  {W("m_max_pool_data", "m_max_pool_mutex"), W("m_max_pool_done", "m_max_pool_mutex")}

\* members handle_client_ciphers writes, with the mutex held
HandleClientCiphersWrites(done) ==
  {W("m_batch_size", "none"), W("m_client_inputs", "none")}
    \cup (IF done THEN {W("m_client_inputs_received", "m_client_inputs_mutex")} ELSE {})

\* find_matching_parameter_index: 0 stands for std::nullopt
FindMatchingParameterIndex(name) ==
  IF \E i \in 1..NumParams : ParamNames[i] = name
    THEN CHOOSE i \in 1..NumParams :
           ParamNames[i] = name /\ \A j \in 1..(i - 1) : ParamNames[j] # name
    ELSE 0

\* HETensor::load_from_pb_tensor into an existing tensor: the chunk is
\* written at its offset
LoadChunk(t, pb) ==
  Tensor([i \in 1..Len(t.data) |->
            IF i > pb.offset /\ i <= pb.offset + Len(pb.data)
              THEN pb.data[i - pb.offset] ELSE t.data[i]],
         t.write_count + Len(pb.data))

\* HETensor::load_from_pb_tensor creating the tensor from its first chunk
LoadNewTensor(pb) == LoadChunk(Tensor([i \in 1..pb.total |-> EmptySlot], 0), pb)

\* handle_client_ciphers: done_loading over the parameters from the client
AllClientInputsLoaded(inputs) ==
  \A i \in 1..NumParams :
    fromClient[i] => (~inputs[i].isnull /\ DoneLoading(inputs[i]))

\* an exception leaves handle_message: it is rethrown out of the thread
\* function of m_message_handling_thread, which ends the process
ThrowInSessionThread ==
  /\ proc' = "terminated"
  /\ UNCHANGED <<inputVars, reluVars, poolVars, opResp, reluStored, inputsCall>>

HandleReluResult(msg) ==
  IF Len(msg.tensors) # 1
    THEN ThrowInSessionThread
    ELSE LET results == msg.tensors[1].data IN
      IF ReluResultInRange(m_relu_data, m_unknown_relu_idx, m_relu_done_count, Len(results))
        THEN /\ m_relu_data' = StoreReluResults(m_relu_data, m_unknown_relu_idx,
                                                m_relu_done_count, results)
             /\ m_relu_done_count' = m_relu_done_count + Len(results)
             /\ reluStored' = reluStored \cup
                  {ReluResultIndex(m_unknown_relu_idx, m_relu_done_count, k) :
                     k \in 1..Len(results)}
             /\ opResp' = opResp + 1
             /\ UNCHANGED <<m_unknown_relu_idx, inputVars, poolVars, proc, inputsCall>>
        ELSE \* out-of-range vector access: the process crashes or the
             \* stores land outside the buffers
             /\ \E outcome \in {"crashed", "running"} : proc' = outcome
             /\ m_relu_done_count' = m_relu_done_count + Len(results)
             /\ opResp' = opResp + 1
             /\ UNCHANGED <<m_relu_data, m_unknown_relu_idx, reluStored, inputVars, poolVars,
                            inputsCall>>

HandleMaxPoolResult(msg) ==
  IF Len(msg.tensors) # 1 \/ Len(msg.tensors[1].data) # 1
    THEN ThrowInSessionThread
    ELSE /\ m_max_pool_data' = Append(m_max_pool_data, msg.tensors[1].data[1])
         /\ m_max_pool_done' = TRUE
         /\ opResp' = opResp + 1
         /\ UNCHANGED <<inputVars, reluVars, reluStored, proc, inputsCall>>

HandleClientCiphers(msg) ==
  IF Len(msg.tensors) # 1 \/ FindMatchingParameterIndex(msg.tensors[1].name) = 0
    THEN ThrowInSessionThread
    ELSE LET pb == msg.tensors[1]
             idx == FindMatchingParameterIndex(pb.name)
             loaded == IF m_client_inputs[idx].isnull
                         THEN LoadNewTensor(pb) ELSE LoadChunk(m_client_inputs[idx], pb)
             inputs == [m_client_inputs EXCEPT ![idx] = loaded]
         IN \* before server_setup has sized the table the index is out of
            \* range: the process crashes or the access goes to the
            \* vector's raw storage
            /\ \E outcome \in (IF tableSized THEN {"running"} ELSE {"running", "crashed"}) :
                 proc' = outcome
            /\ m_batch_size' = 1
            /\ m_client_inputs' = inputs
            /\ m_client_inputs_received' =
                 (m_client_inputs_received \/ AllClientInputsLoaded(inputs))
            /\ inputsCall' = IF AllClientInputsLoaded(inputs) THEN callNo ELSE inputsCall
            /\ UNCHANGED <<tableSized, reluVars, poolVars, opResp, reluStored>>

\* the members a handle_message call writes for this message
MessageWrites(msg) ==
  IF msg.type = "RESPONSE"
    THEN (IF msg.pk THEN {W("m_client_public_key_set", "none")} ELSE {})
         \cup (IF msg.evk THEN {W("m_client_eval_key_set", "none")} ELSE {})
         \cup (IF ShouldSendInferenceShape(m_sent_inference_shape,
                                           m_client_public_key_set \/ msg.pk,
                                           m_client_eval_key_set \/ msg.evk)
                 THEN {W("m_sent_inference_shape", "none")} ELSE {})
         \cup (IF msg.fn \in {"Relu", "BoundedRelu"} /\ Len(msg.tensors) = 1
                 THEN HandleReluResultWrites ELSE {})
         \cup (IF msg.fn = "MaxPool" /\ Len(msg.tensors) = 1
                    /\ Len(msg.tensors[1].data) = 1
                 THEN HandleMaxPoolResultWrites ELSE {})
    ELSE IF msg.type = "REQUEST" /\ Len(msg.tensors) = 1
              /\ FindMatchingParameterIndex(msg.tensors[1].name) # 0
      THEN HandleClientCiphersWrites(
             AllClientInputsLoaded(
               [m_client_inputs EXCEPT ![FindMatchingParameterIndex(msg.tensors[1].name)] =
                  IF @.isnull THEN LoadNewTensor(msg.tensors[1])
                  ELSE LoadChunk(@, msg.tensors[1])]))
      ELSE {}

\* handle_message on the next message read from the socket
HandleMessage ==
  /\ UNCHANGED dispatchVars
  /\ Running /\ session = "open" /\ toServer # <<>>
  /\ LET msg == Head(toServer) IN
       /\ toServer' = Tail(toServer)
       /\ sessionWrites' = IF pc = "idle" THEN sessionWrites
                           ELSE sessionWrites \cup MessageWrites(msg)
       /\ IF msg.type = "RESPONSE"
            THEN LET pk == m_client_public_key_set \/ msg.pk
                     evk == m_client_eval_key_set \/ msg.evk
                     send == ShouldSendInferenceShape(m_sent_inference_shape, pk, evk)
                 IN /\ m_client_public_key_set' = pk
                    /\ m_client_eval_key_set' = evk
                    /\ m_sent_inference_shape' = (m_sent_inference_shape \/ send)
                    /\ outbox' = IF send THEN WriteMessage(outbox, InferenceShapeRequest)
                                 ELSE outbox
                    /\ IF msg.fn = ""
                         THEN UNCHANGED <<inputVars, reluVars, poolVars, proc, opResp,
                                          reluStored, inputsCall>>
                         ELSE IF msg.fn \notin KnownFunctionNames
                           THEN ThrowInSessionThread
                           ELSE IF msg.fn = "MaxPool"
                             THEN HandleMaxPoolResult(msg)
                             ELSE HandleReluResult(msg)
            ELSE /\ UNCHANGED <<m_client_public_key_set, m_client_eval_key_set,
                                m_sent_inference_shape, outbox>>
                 /\ IF msg.type = "REQUEST"
                      THEN IF Len(msg.tensors) > 0
                             THEN HandleClientCiphers(msg)
                             ELSE UNCHANGED <<inputVars, reluVars, poolVars, proc, opResp,
                                              reluStored, inputsCall>>
                      ELSE ThrowInSessionThread
  /\ UNCHANGED <<staticVars, mainVars, m_server_setup, m_session_started,
                 m_client_outputs, acceptor, session, toClient, clientVars, opReq,
                 sentSlots>>

----------------------------------------------------------------------------
(* The client *)

NumChunksOf(n) == (n + ChunkSize - 1) \div ChunkSize

\* the REQUEST messages carrying a tensor in chunks of at most ChunkSize slots
ChunkMessages(name, data) ==
  [c \in 1..NumChunksOf(Len(data)) |->
     Message("REQUEST", FALSE, FALSE, FALSE, "",
             <<PbTensor(name, (c - 1) * ChunkSize, Len(data),
                        SubSeq(data, (c - 1) * ChunkSize + 1,
                               Min2(c * ChunkSize, Len(data))))>>)]

RECURSIVE Flatten(_)
Flatten(ss) == IF ss = <<>> THEN <<>> ELSE Head(ss) \o Flatten(Tail(ss))

\* the data the client sends for the parameter named name; p0 carries the
\* slots the client chose, every other parameter is all ciphertext
ClientTensorData(name, p0data) ==
  IF name = ParamNames[1] THEN p0data ELSE [k \in 1..NumSlots |-> Cipher(InputVal(k))]

\* the client's answer to a Relu / BoundedRelu request: one ciphertext per slot
ClientReluResponse(msg) ==
  Message("RESPONSE", FALSE, FALSE, FALSE, msg.fn,
          <<PbTensor("relu", 0, Len(msg.tensors[1].data),
                     [k \in 1..Len(msg.tensors[1].data) |->
                        Cipher(ReluFn(msg.fn, msg.tensors[1].data[k].val))])>>)

\* the client's answer to a MaxPool request: one ciphertext
ClientMaxPoolResponse(msg) ==
  Message("RESPONSE", FALSE, FALSE, FALSE, "MaxPool",
          <<PbTensor("max_pool", 0, 1,
                     <<Cipher(MaxOfSeq([k \in 1..Len(msg.tensors[1].data) |->
                                          msg.tensors[1].data[k].val]))>>)>>)

\* the client reads the next message and reacts to it
ClientReceive ==
  /\ UNCHANGED dispatchVars
  /\ Running /\ session = "open" /\ toClient # <<>>
  /\ LET msg == Head(toClient) IN
       /\ toClient' = Tail(toClient)
       /\ IF msg.enc
            THEN /\ toServer' = toServer \o
                      (IF keyswitching THEN <<PublicKeyMsg, EvalKeyMsg>> ELSE <<PublicKeyMsg>>)
                 /\ cpc' = "wait_shape"
                 /\ UNCHANGED <<clientInput, clientResults>>
            ELSE IF msg.type = "REQUEST" /\ msg.fn = "Parameter"
              THEN \E tags \in [1..NumSlots -> {"plain", "cipher"}] :
                     LET p0data == [k \in 1..NumSlots |->
                                      [tag |-> tags[k], val |-> InputVal(k)]]
                     IN /\ clientInput' = p0data
                        /\ toServer' = toServer \o
                             Flatten([k \in 1..Len(msg.tensors) |->
                                        ChunkMessages(msg.tensors[k].name,
                                          ClientTensorData(msg.tensors[k].name, p0data))])
                        /\ cpc' = "serve"
                        /\ UNCHANGED clientResults
              ELSE IF msg.type = "REQUEST" /\ msg.fn \in {"Relu", "BoundedRelu"}
                THEN /\ toServer' = Append(toServer, ClientReluResponse(msg))
                     /\ UNCHANGED <<cpc, clientInput, clientResults>>
                ELSE IF msg.type = "REQUEST" /\ msg.fn = "MaxPool"
                  THEN /\ toServer' = Append(toServer, ClientMaxPoolResponse(msg))
                       /\ UNCHANGED <<cpc, clientInput, clientResults>>
                  ELSE /\ clientResults' = Append(clientResults, msg.tensors[1].data)
                       /\ UNCHANGED <<cpc, clientInput, toServer>>
  /\ UNCHANGED <<staticVars, mainVars, flagVars, inputVars, reluVars, poolVars,
                 m_client_outputs, acceptor, session, outbox, proc, faulty, histVars>>

\* the client closes the connection, or the connection is torn
SessionClose ==
  /\ UNCHANGED dispatchVars
  /\ Running /\ session = "open"
  /\ session' = "closed"
  /\ UNCHANGED <<staticVars, mainVars, flagVars, inputVars, reluVars, poolVars,
                 m_client_outputs, acceptor, outbox, toClient, toServer, proc,
                 clientVars, histVars>>

\* messages the protocol does not allow
BadTensor == PbTensor("relu", 0, 1, <<Cipher(0)>>)
MalformedMessages ==
  { Message("UNKNOWN", FALSE, FALSE, FALSE, "", <<>>),
    Message("RESPONSE", FALSE, FALSE, FALSE, "Relu", <<>>),
    Message("RESPONSE", FALSE, FALSE, FALSE, "MaxPool", <<BadTensor, BadTensor>>),
    Message("RESPONSE", FALSE, FALSE, FALSE, "Softmax", <<BadTensor>>),
    Message("REQUEST", FALSE, FALSE, FALSE, "", <<PbTensor("nope", 0, 1, <<Cipher(0)>>)>>) }

\* the client sends one malformed message
ClientSendMalformed ==
  /\ UNCHANGED dispatchVars
  /\ Running /\ session = "open" /\ ~faulty
  /\ \E msg \in MalformedMessages : toServer' = Append(toServer, msg)
  /\ faulty' = TRUE
  /\ UNCHANGED <<staticVars, mainVars, flagVars, inputVars, reluVars, poolVars,
                 m_client_outputs, acceptor, session, outbox, toClient, proc, cpc,
                 clientInput, clientResults, histVars>>

----------------------------------------------------------------------------
MainStep ==
  \/ CallBegin \/ SetupWriteParameters \/ SetupResize \/ InputsWaitDone
  \/ BindParameters \/ ReluStart \/ ReluSendBatch \/ ReluWaitDone
  \/ MaxPoolStart \/ MaxPoolSendCell \/ MaxPoolWaitDone
  \/ ResultNode \/ SendClientResults \/ ResultWaitDone

SessionStep == AcceptConnection \/ SessionWrite \/ HandleMessage

Next ==
  \/ CallBegin \/ SetupWriteParameters \/ SetupResize \/ InputsWaitDone
  \/ BindParameters \/ ReluStart \/ ReluSendBatch \/ ReluWaitDone
  \/ MaxPoolStart \/ MaxPoolSendCell \/ MaxPoolWaitDone
  \/ ResultNode \/ SendClientResults \/ ResultWaitDone
  \/ AcceptConnection \/ SessionWrite \/ HandleMessage
  \/ ClientReceive \/ SessionClose \/ ClientSendMalformed

Spec == Init /\ [][Next]_vars

\* both threads are scheduled fairly, and a connected client answers
FairSpec ==
  /\ Spec
  /\ WF_vars(MainStep)
  /\ WF_vars(SessionStep)
  /\ WF_vars(ClientReceive)

----------------------------------------------------------------------------
(* HESealExecutable::generate_calls *)

\* the OP_TYPEIDs whose case of the switch runs a kernel or an offload
KernelCaseIds ==
  {"Add", "AvgPool", "BatchNormInference", "BoundedRelu", "Broadcast", "Concat",
   "Constant", "Convolution", "Divide", "Dot", "Exp", "Max", "MaxPool",
   "Minimum", "Multiply", "Negative", "Pad", "Power", "Relu", "Reshape",
   "Result", "Reverse", "Slice", "Softmax", "Subtract", "Sum"}

\* the OP_TYPEID whose case only logs "Skipping parameter"
SkippedCaseIds == {"Parameter"}

\* the OP_TYPEIDs whose case labels fall through to throw unsupported_op,
\* other than UnknownOp
UnsupportedCaseIds ==
  {
   "Abs", "Acos", "All", "AllReduce", "And", "Any", "ArgMax", "ArgMin", 
   "Asin", "Atan", "Atan2", "AvgPoolBackprop", "BatchMatMul", 
   "BatchMatMulTranspose", "BatchNormTraining", "BatchNormTrainingBackprop", 
   "BroadcastDistributed", "BroadcastLike", "Ceiling", "Clamp", "Convert", 
   "ConvolutionBackpropData", "ConvolutionBackpropFilters", 
   "ConvolutionBias", "ConvolutionBiasAdd", 
   "ConvolutionBiasBackpropFiltersBias", "Cos", "Cosh", "CrossEntropy", 
   "CrossEntropyBackprop", "CropAndResize", "CumSum", "DepthToSpace", 
   "Dequantize", "DynBroadcast", "DynPad", "DynReshape", "DynSlice", 
   "DynReplaceSlice", "Elu", "EmbeddingLookup", "Equal", "Erf", 
   "FakeQuantize", "Floor", "Gather", "GatherND", "GenerateMask", 
   "GetOutputElement", "Gelu", "Gemm", "GroupConvolution", 
   "GroupConvolutionBackpropData", "GroupConvolutionBackpropFilters", 
   "GroupConvolutionTranspose", "GeluBackpropFactor", "Greater", 
   "GreaterEq", "GRN", "GRUCell", "HardSigmoid", "Interpolate", "LayerNorm", 
   "LayerNormBackprop", "Less", "LessEq", "Log", "LRN", "LSTMCell", 
   "LSTMSequence", "Maximum", "MatMul", "MaxPoolBackprop", "MVN", "Min", 
   "NormalizeL2", "Not", "NotEqual", "OneHot", "Or", "Passthrough", "PRelu", 
   "PartialSlice", "PartialSliceBackprop", "Product", "Quantize", 
   "QuantizedConvolutionBias", "QuantizedConvolutionBiasAdd", 
   "QuantizedConvolutionBiasSignedAdd", "QuantizedConvolutionRelu", 
   "QuantizedConvolution", "QuantizedDot", "QuantizedDotBias", "Recv", 
   "Range", "RandomUniform", "ReluBackprop", "ReplaceSlice", 
   "ReverseSequence", "Round", "RNNCell", "ScalarConstantLike", 
   "ScaleShift", "ScatterAdd", "ScatterND", "ScatterNDAdd", "ShapeOf", 
   "Send", "Select", "Selu", "ShuffleChannels", "Sigmoid", 
   "SigmoidBackprop", "Sign", "Sin", "Sinh", "SoftmaxCrossEntropy", 
   "SoftmaxCrossEntropyBackprop", "SpaceToDepth", "Split", 
   "SquaredDifference", "Squeeze", "Sqrt", "Stack", "StopGradient", "Tan", 
   "Tanh", "TensorIterator", "Tile", "TopK", "Unsqueeze", "Xor"}

\* the keys of type_info_map: one per enumerator other than UnknownOp
TypeInfoMapKeys == KernelCaseIds \cup SkippedCaseIds \cup UnsupportedCaseIds

\* node types that are not in the op table
UnregisteredTypes == {"CustomOp", ""}

NodeTypes == TypeInfoMapKeys \cup UnregisteredTypes

\* variant of get_typeid that maps an unregistered type to Parameter
GetTypeid_UnknownAsParameter(type_info) ==
  IF type_info \in TypeInfoMapKeys THEN type_info ELSE "Parameter"

\* get_typeid
GetTypeid(type_info) ==
  IF type_info \in TypeInfoMapKeys THEN type_info ELSE "UnknownOp"

\* one kernel invocation and the value of lazy_mod() while it runs
KernelCall(k, lazy) == [kernel |-> k, lazy_mod |-> lazy]

\* variant of ModReduceRescale without the mod_reduce
ModReduceRescale_RescaleOnly(k, lazy) ==
  <<KernelCall(k, lazy), KernelCall("rescale_seal", lazy)>>

\* the cases that mod-reduce (under lazy_mod) and rescale their output
ModReduceRescale(k, lazy) ==
  <<KernelCall(k, lazy)>>
    \o (IF lazy THEN <<KernelCall("mod_reduce_seal", lazy)>> ELSE <<>>)
    \o <<KernelCall("rescale_seal", lazy)>>

\* the NGRAPH_CHECKs of a case, given the mode and whether the node's shapes
\* and arguments pass
CaseChecksPass(id, client, ok) ==
  CASE id = "Exp" -> ~client
    [] id = "Max" -> ok /\ ~client
    [] id \in {"BoundedRelu", "MaxPool", "Relu"} -> client \/ ok
    [] id \in {"BatchNormInference", "Slice", "Softmax"} -> ok
    [] OTHER -> TRUE

\* the calls a case makes when its checks pass
CaseKernels(id, client, lazy) ==
  CASE id = "Add" -> <<KernelCall("add_seal", FALSE)>>
    [] id = "AvgPool" -> ModReduceRescale("avg_pool_seal", lazy)
    [] id = "BatchNormInference" -> <<KernelCall("batch_norm_inference_seal", lazy)>>
    [] id = "BoundedRelu" ->
         <<KernelCall(IF client THEN "handle_server_relu_op" ELSE "bounded_relu_seal", lazy)>>
    [] id = "Broadcast" -> <<KernelCall("broadcast_seal", lazy)>>
    [] id = "Concat" -> <<KernelCall("concat_seal", lazy)>>
    [] id = "Constant" -> <<KernelCall("constant_seal", lazy)>>
    [] id = "Convolution" -> ModReduceRescale("convolution_seal", lazy)
    [] id = "Divide" -> <<KernelCall("divide_seal", lazy)>>
    [] id = "Dot" -> ModReduceRescale("dot_seal", lazy)
    [] id = "Exp" -> <<KernelCall("exp_seal", lazy)>>
    [] id = "Max" -> <<KernelCall("max_seal", lazy)>>
    [] id = "MaxPool" ->
         <<KernelCall(IF client THEN "handle_server_max_pool_op" ELSE "max_pool_seal", lazy)>>
    [] id = "Minimum" -> <<KernelCall("minimum_seal", lazy)>>
    [] id = "Multiply" ->
         <<KernelCall("multiply_seal", FALSE), KernelCall("rescale_seal", lazy)>>
    [] id = "Negative" -> <<KernelCall("negate_seal", lazy)>>
    [] id = "Pad" -> <<KernelCall("pad_seal", lazy)>>
    [] id = "Parameter" -> <<>>
    [] id = "Power" -> <<KernelCall("power_seal", lazy)>>
    [] id = "Relu" ->
         <<KernelCall(IF client THEN "handle_server_relu_op" ELSE "relu_seal", lazy)>>
    [] id = "Reshape" -> <<KernelCall("reshape_seal", lazy)>>
    [] id = "Result" -> <<KernelCall("result_seal", lazy)>>
    [] id = "Reverse" -> <<KernelCall("reverse_seal", lazy)>>
    [] id = "Slice" -> <<KernelCall("slice_seal", lazy)>>
    [] id = "Softmax" -> <<KernelCall("softmax_seal", lazy)>>
    [] id = "Subtract" -> <<KernelCall("subtract_seal", lazy)>>
    [] id = "Sum" -> <<KernelCall("sum_seal", lazy)>>
    [] OTHER -> <<>>

\* generate_calls: the switch over get_typeid(node.get_type_info())
GenerateCalls(type_info, client, lazy, ok) ==
  LET id == GetTypeid(type_info) IN
  IF id \notin KernelCaseIds \cup SkippedCaseIds
    THEN [status |-> "unsupported_op", kernels |-> <<>>, out_written |-> FALSE,
          lazy_entry |-> lazy]
  ELSE IF ~CaseChecksPass(id, client, ok)
    THEN [status |-> "check_failed", kernels |-> <<>>, out_written |-> FALSE,
          lazy_entry |-> lazy]
  ELSE [status |-> "ok", kernels |-> CaseKernels(id, client, lazy),
        out_written |-> CaseKernels(id, client, lazy) # <<>>,
        lazy_entry |-> lazy]

\* variant of LazyModOnReturn that leaves the flag cleared after Add and Multiply
LazyModOnReturn_Cleared(id, lazy) ==
  IF id \in {"Add", "Multiply"} THEN FALSE ELSE lazy

\* the backend's lazy_mod flag when the case has run: Add and Multiply clear
\* a set flag before their kernel and set it again after it
LazyModOnReturn(id, lazy) ==
  IF id \in {"Add", "Multiply"} THEN (IF lazy THEN TRUE ELSE lazy) ELSE lazy

\* a node of any type, in either mode, before generate_calls is called on it
\* an executable on which no call has begun
ProtocolIdle ==
  /\ ExecutableInit
  /\ graph = <<"Relu", "BoundedRelu">>
  /\ fromClient = <<TRUE, TRUE>>
  /\ ~keyswitching

protocolVars == <<staticVars, mainVars, flagVars, inputVars, reluVars, poolVars,
                  m_client_outputs, netVars, proc, clientVars, histVars>>

DispatchInit ==
  /\ ProtocolIdle
  /\ LimbIdle
  /\ LivenessIdle
  /\ KernelIdle
  /\ UtilIdle
  /\ node_type \in NodeTypes
  /\ enable_client \in BOOLEAN
  /\ lazy_mod \in BOOLEAN
  /\ checks_ok \in BOOLEAN
  /\ dispatch = NoDispatch

GenerateCallsStep ==
  /\ dispatch.status = "none"
  /\ dispatch' = GenerateCalls(node_type, enable_client, lazy_mod, checks_ok)
  /\ lazy_mod' = (IF dispatch'.status = "ok"
                    THEN LazyModOnReturn(GetTypeid(node_type), lazy_mod)
                    ELSE lazy_mod)
  /\ UNCHANGED <<node_type, enable_client, checks_ok>>
  /\ UNCHANGED <<protocolVars, livenessVars, kernelVars, limbVars, utilVars>>

DispatchNext == GenerateCallsStep

DispatchSpec == DispatchInit /\ [][DispatchNext]_vars

----------------------------------------------------------------------------
(* HESealExecutable::call: the node loop, the tensor map and the free lists *)

\* name of an HETensor the caller created (create_plain_tensor / create_cipher_tensor default)
ExternalName == [kind |-> "external", id |-> 0]

\* descriptor::Tensor::get_name of tensor t; an output tensor created by call carries it
DescriptorName(t) == [kind |-> "descriptor", id |-> t]

\* the descriptor tensors: parameter outputs, op outputs, the Result's output
ParamTensors == 1..NumParams
OpTensor(k) == NumParams + k
ResultTensor == NumParams + NumOpNodes + 1

ParameterNode(t) ==
  [kind |-> "parameter", inputs |-> {}, output |-> t, liveness_free_list |-> {}]

\* the inputs an op node may have: one or two of the tensors produced before it
InputChoices(k) ==
  {S \in SUBSET (1..(NumParams + k - 1)) : Cardinality(S) \in {1, 2}}

\* the inputs of the op nodes 1..k of a function
RECURSIVE OpInputs(_)
OpInputs(k) ==
  IF k = 0 THEN {<<>>}
  ELSE {Append(c, S) : c \in OpInputs(k - 1), S \in InputChoices(k)}

\* get_ordered_ops: the parameters, then the ops in topological order, then
\* the Result; free lists not yet assigned
OrderedOps(ins, r) ==
  [t \in ParamTensors |-> ParameterNode(t)]
    \o [k \in 1..NumOpNodes |->
          [kind |-> "op", inputs |-> ins[k], output |-> OpTensor(k),
           liveness_free_list |-> {}]]
    \o <<[kind |-> "result", inputs |-> {r}, output |-> ResultTensor,
          liveness_free_list |-> {}]>>

\* the tensors a node reads or writes
NodeTensors(n) == n.inputs \cup {n.output}

\* parameters and results outlive the call's intermediate tensors
PersistentTensors == ParamTensors \cup {ResultTensor}

\* pass::HELiveness: a node frees the non-persistent tensors it is the last to use
HELiveness(nodes) ==
  [i \in 1..Len(nodes) |->
     [nodes[i] EXCEPT !.liveness_free_list =
        IF nodes[i].kind = "parameter" THEN {}
        ELSE {t \in NodeTensors(nodes[i]) \ PersistentTensors :
                \A j \in (i + 1)..Len(nodes) : t \notin NodeTensors(nodes[j])}]]

\* the functions: every op node's output is read by a later node
Functions ==
  {HELiveness(OrderedOps(ins, r)) :
     <<ins, r>> \in
       {x \in OpInputs(NumOpNodes) \X (1..(NumParams + NumOpNodes)) :
          \A k \in 1..NumOpNodes :
            \/ x[2] = OpTensor(k)
            \/ \E j \in (k + 1)..NumOpNodes : OpTensor(k) \in x[1][j]}}

\* call: tensor_map after the parameters and the outputs have been mapped
InitialTensorMap ==
  {[key |-> t, name |-> ExternalName] : t \in PersistentTensors}

MapKeys(map) == {e.key : e \in map}

\* variant of NameMatches that takes any entry for the tensor to free
NameMatches_Any(it_name, t_name) == TRUE

\* the comparison of the erase loop: it_name == t->get_name()
NameMatches(it_name, t_name) == it_name = t_name

\* the erase loop for one tensor of the free list: the first entry in the
\* map's iteration order whose HETensor has the tensor's name, if any
EraseOne(map, t) ==
  IF \E e \in map : NameMatches(e.name, DescriptorName(t))
    THEN {map \ {e} : e \in {x \in map : NameMatches(x.name, DescriptorName(t))}}
    ELSE {map}

\* the erase loop over a node's liveness_free_list
RECURSIVE EraseAll(_, _)
EraseAll(maps, fl) ==
  IF fl = <<>> THEN maps
  ELSE EraseAll(UNION {EraseOne(m, Head(fl)) : m \in maps}, Tail(fl))

\* get op outputs from map or create
WithOutput(map, n) ==
  IF n.output \in MapKeys(map) THEN map
  ELSE map \cup {[key |-> n.output, name |-> DescriptorName(n.output)]}

LivenessInit ==
  /\ ProtocolIdle
  /\ LimbIdle
  /\ DispatchIdle
  /\ KernelIdle
  /\ UtilIdle
  /\ m_nodes \in Functions
  /\ tensor_map = InitialTensorMap
  /\ node_pos = 1
  /\ lookup = "ok"
  /\ erased = {}

\* one iteration of the loop over m_nodes
RunNode ==
  /\ lookup = "ok" /\ node_pos \in 1..Len(m_nodes)
  /\ LET n == m_nodes[node_pos] IN
       IF n.kind = "parameter"
         THEN /\ node_pos' = node_pos + 1
              /\ UNCHANGED <<tensor_map, lookup, erased>>
       ELSE IF ~(n.inputs \subseteq MapKeys(tensor_map))
         THEN /\ lookup' = "out_of_range"
              /\ UNCHANGED <<tensor_map, node_pos, erased>>
       ELSE /\ tensor_map' \in
                 EraseAll({WithOutput(tensor_map, n)}, SeqOfSet(n.liveness_free_list))
            /\ erased' = erased \cup (MapKeys(WithOutput(tensor_map, n)) \ MapKeys(tensor_map'))
            /\ node_pos' = node_pos + 1
            /\ UNCHANGED lookup
  /\ UNCHANGED <<m_nodes, protocolVars, generateCallsVars, kernelVars, limbVars, utilVars>>

LivenessNext == RunNode

LivenessSpec == LivenessInit /\ [][LivenessNext]_vars

----------------------------------------------------------------------------
(* The add kernel: scalar_add_seal and add_seal (seal/kernel/add_seal.cpp) *)

\* an HEType slot holding a plaintext vector
PlainSlot(vals, cp) ==
  [tag |-> "plain", vals |-> vals, complex_packing |-> cp, chain |-> 0]

\* an HEType slot holding a ciphertext that decrypts to vals, at a chain index
CipherSlot(vals, cp, chain) ==
  [tag |-> "cipher", vals |-> vals, complex_packing |-> cp, chain |-> chain]

\* x + y over vectors where a vector of size 1 is a scalar (it is encoded
\* into every slot) and a shorter vector is padded with zeros
BroadcastAdd(a, b) ==
  IF Len(a) = 1 THEN [i \in 1..Len(b) |-> b[i] + a[1]]
  ELSE IF Len(b) = 1 THEN [i \in 1..Len(a) |-> a[i] + b[1]]
  ELSE [i \in 1..Max2(Len(a), Len(b)) |->
          (IF i <= Len(a) THEN a[i] ELSE 0) + (IF i <= Len(b) THEN b[i] ELSE 0)]

\* variant of PlainPlainAdd without the scalar cases
PlainPlainAdd_NoBroadcast(arg0, arg1) ==
  [i \in 1..Min2(Len(arg0), Len(arg1)) |-> arg0[i] + arg1[i]]

\* scalar_add_seal(const HEPlaintext&, const HEPlaintext&, HEPlaintext&)
PlainPlainAdd(arg0, arg1) ==
  IF Len(arg0) = 1 THEN [i \in 1..Len(arg1) |-> arg1[i] + arg0[1]]
  ELSE IF Len(arg1) = 1 THEN [i \in 1..Len(arg0) |-> arg0[i] + arg1[1]]
  ELSE [i \in 1..Min2(Len(arg0), Len(arg1)) |-> arg0[i] + arg1[i]]

\* variant of AddZero that skips the add for the empty plaintext only
AddZero_EmptyOnly(plain) == plain = <<>>

\* the plaintext is empty or [0]: adding it to a ciphertext is skipped
AddZero(plain) == plain = <<>> \/ plain = <<0>>

\* variant of MatchModulusInplace that works on copies of the operands
MatchModulusInplace_OnCopies(a, b) == <<a, b>>

\* match_modulus_and_scale_inplace: the operand higher in the chain is
\* mod-switched down, in place, to the chain index of the other
MatchModulusInplace(a, b) ==
  <<[a EXCEPT !.chain = Min2(a.chain, b.chain)],
    [b EXCEPT !.chain = Min2(a.chain, b.chain)]>>

\* the lazy_mod path of the ciphertext overload adds the limbs of arg0 into the
\* limbs out already holds, under out's own parameters: it is defined when out
\* holds a ciphertext with data at the chain index of the matched operands
LazyAddDefined(arg0, arg1, out) ==
  /\ out.tag = "cipher"
  /\ out.vals # <<>>
  /\ out.chain = Min2(arg0.chain, arg1.chain)

\* scalar_add_seal(SealCiphertextWrapper&, SealCiphertextWrapper&, out): the
\* values out decrypts to
CipherCipherAdd(arg0, arg1, out, lazy) ==
  IF lazy THEN BroadcastAdd(out.vals, arg0.vals) ELSE BroadcastAdd(arg0.vals, arg1.vals)

\* variant of ScalarAddOut that keeps the tag the output slot had
ScalarAddOut_KeepTag(arg0, arg1, out, lazy) ==
  [tag |-> out.tag,
   vals |-> IF arg0.tag = "plain" /\ arg1.tag = "plain"
              THEN PlainPlainAdd(arg0.vals, arg1.vals)
              ELSE BroadcastAdd(arg0.vals, arg1.vals),
   complex_packing |-> arg0.complex_packing,
   chain |-> out.chain]

\* scalar_add_seal(HEType&, HEType&, HEType&): the output slot, by the tags
\* of the operands
ScalarAddOut(arg0, arg1, out, lazy) ==
  CASE arg0.tag = "cipher" /\ arg1.tag = "cipher" ->
         CipherSlot(CipherCipherAdd(arg0, arg1, out, lazy), arg0.complex_packing,
                    Min2(arg0.chain, arg1.chain))
    [] arg0.tag = "cipher" /\ arg1.tag = "plain" ->
         IF AddZero(arg1.vals)
           THEN CipherSlot(arg0.vals, arg0.complex_packing, arg0.chain)
           ELSE CipherSlot(BroadcastAdd(arg0.vals, arg1.vals), arg0.complex_packing,
                           arg0.chain)
    [] arg0.tag = "plain" /\ arg1.tag = "cipher" ->
         IF AddZero(arg0.vals)
           THEN CipherSlot(arg1.vals, arg0.complex_packing, arg1.chain)
           ELSE CipherSlot(BroadcastAdd(arg1.vals, arg0.vals), arg0.complex_packing,
                           arg1.chain)
    [] OTHER ->
         PlainSlot(PlainPlainAdd(arg0.vals, arg1.vals), arg0.complex_packing)

\* variant of PackingAgrees that accepts any pair of operands
PackingAgrees_Unchecked(arg0, arg1) == TRUE

\* the check that opens scalar_add_seal: both operands use the same packing
PackingAgrees(arg0, arg1) == arg0.complex_packing = arg1.complex_packing

\* the output slot when the lazy_mod path runs on an output it is not defined
\* for: the tag and the packing flag have been set, no limb has been added
EmptiedOut(arg0, out) ==
  IF out.tag = "cipher"
    THEN [out EXCEPT !.complex_packing = arg0.complex_packing]
    ELSE CipherSlot(<<>>, arg0.complex_packing, MaxChainIndex)

\* scalar_add_seal on slots: the operands (matched in place when both are
\* ciphertexts), the output slot and the outcome
ScalarAddSeal(arg0, arg1, out, lazy) ==
  IF ~PackingAgrees(arg0, arg1)
    THEN [arg0 |-> arg0, arg1 |-> arg1, out |-> out, status |-> "error"]
  ELSE IF arg0.tag = "cipher" /\ arg1.tag = "cipher"
    THEN IF lazy /\ ~LazyAddDefined(arg0, arg1, out)
           THEN [arg0 |-> MatchModulusInplace(arg0, arg1)[1],
                 arg1 |-> MatchModulusInplace(arg0, arg1)[2],
                 out |-> EmptiedOut(arg0, out), status |-> "undefined"]
           ELSE [arg0 |-> MatchModulusInplace(arg0, arg1)[1],
                 arg1 |-> MatchModulusInplace(arg0, arg1)[2],
                 out |-> ScalarAddOut(arg0, arg1, out, lazy), status |-> "ok"]
  ELSE [arg0 |-> arg0, arg1 |-> arg1,
        out |-> ScalarAddOut(arg0, arg1, out, lazy), status |-> "ok"]

\* add_seal: scalar_add_seal on slot i of the operands and the output, for
\* each i below count; st carries the tensors and the outcome so far
RECURSIVE AddSealFrom(_, _, _, _)
AddSealFrom(st, i, count, lazy) ==
  IF i > count \/ st.status # "ok" THEN st
  ELSE LET r == ScalarAddSeal(st.arg0[i], st.arg1[i], st.out[i], lazy) IN
       AddSealFrom([arg0 |-> [st.arg0 EXCEPT ![i] = r.arg0],
                    arg1 |-> [st.arg1 EXCEPT ![i] = r.arg1],
                    out |-> [st.out EXCEPT ![i] = r.out],
                    status |-> r.status], i + 1, count, lazy)

AddSeal(arg0, arg1, out, count, lazy) ==
  AddSealFrom([arg0 |-> arg0, arg1 |-> arg1, out |-> out, status |-> "ok"],
              1, count, lazy)

----------------------------------------------------------------------------
(* The Add node of add_test and direct calls of scalar_add_seal *)

\* shape_size(shape) and shape_size(HETensor::pack_shape(shape))
ShapeSize == BatchDim * NumElems
PackShapeSize == NumElems

\* input_a and input_b of add_test; element i of the code is element i + 1 here
InputVectorA == [k \in 1..ShapeSize |-> k - 1]
InputVectorB == [k \in 1..ShapeSize |-> IF (k - 1) % 2 = 0 THEN k - 1 ELSE 1 - (k - 1)]

\* the slot of a tensor that holds the element at the 0-based index i, and
\* the position of the element in that slot: a packed tensor keeps the batch
\* axis inside each slot
SlotOf(i, packed) == IF packed THEN (i % PackShapeSize) + 1 ELSE i + 1
PosOf(i, packed) == IF packed THEN (i \div PackShapeSize) + 1 ELSE 1

\* an empty slot of a tensor made by tensor_from_flags
FreshSlot(encrypted, cp) ==
  IF encrypted THEN CipherSlot(<<>>, cp, MaxChainIndex) ELSE PlainSlot(<<>>, cp)

\* tensor_from_flags followed by copy_data of a vector of ShapeSize values
TensorFromFlags(data, encrypted, packed, cp) ==
  [j \in 1..(IF packed THEN PackShapeSize ELSE ShapeSize) |->
     [FreshSlot(encrypted, cp) EXCEPT
        !.vals = IF packed
                   THEN [b \in 1..BatchDim |-> data[(b - 1) * PackShapeSize + j]]
                   ELSE <<data[j]>>]]

\* t_result of add_test before the call
ResultFromFlags(f) ==
  [j \in 1..(IF f.arg1_packed \/ f.arg2_packed THEN PackShapeSize ELSE ShapeSize) |->
     FreshSlot(f.arg1_encrypted \/ f.arg2_encrypted, f.complex_packing)]

AddTestFlags ==
  [family : {"add_test"}, arg1_encrypted : BOOLEAN, arg2_encrypted : BOOLEAN,
   complex_packing : BOOLEAN, arg1_packed : BOOLEAN, arg2_packed : BOOLEAN]

\* the values scalar_add_seal is called on
PlainValues == {0, 7}

Vectors(lo, hi) == UNION {[1..n -> PlainValues] : n \in lo..hi}

ScalarOperands ==
  {PlainSlot(v, cp) : v \in Vectors(0, MaxPlainSize), cp \in BOOLEAN}
    \cup UNION {{CipherSlot(v, cp, c) : v \in Vectors(1, MaxPlainSize), cp \in BOOLEAN} :
                  c \in 1..MaxChainIndex}

\* what the output slot may hold before the kernel writes it
OutputPriors ==
  {PlainSlot(<<>>, FALSE), PlainSlot(<<8>>, TRUE), CipherSlot(<<8>>, TRUE, 1)}

\* the slots of the input of a client-aided Relu / BoundedRelu
ReluInputSlots ==
  {PlainSlot(<<7>>, FALSE)} \cup {CipherSlot(<<7>>, FALSE, c) : c \in 1..MaxChainIndex}

\* std::numeric_limits<size_t>::max(), which no chain index reaches, is
\* held as -1
SIZE_MAX == -1

\* variant of SmallestChainIndex that takes the first ciphertext slot's index
SmallestChainIndex_First(data) ==
  LET I == {j \in 1..Len(data) : data[j].tag = "cipher"} IN
  IF I = {} THEN SIZE_MAX ELSE data[CHOOSE i \in I : \A j \in I : i <= j].chain

\* match_to_smallest_chain_index: the least chain index of the ciphertext
\* slots, the size_t maximum when there is none
SmallestChainIndex(data) ==
  LET C == {data[i].chain : i \in {j \in 1..Len(data) : data[j].tag = "cipher"}} IN
  IF C = {} THEN SIZE_MAX ELSE CHOOSE c \in C : \A d \in C : c <= d

\* match_to_smallest_chain_index: every ciphertext slot is mod-switched, in
\* place, to the least chain index; plaintext slots are left alone
MatchToSmallestChainIndex(data) ==
  [i \in 1..Len(data) |->
     IF data[i].tag = "cipher"
       THEN [data[i] EXCEPT !.chain = SmallestChainIndex(data)]
       ELSE data[i]]

KernelInit ==
  /\ ProtocolIdle
  /\ LivenessIdle
  /\ LimbIdle
  /\ UtilIdle
  /\ node_type = "Add"
  /\ enable_client = TRUE
  /\ lazy_mod \in BOOLEAN
  /\ checks_ok = TRUE
  /\ dispatch = NoDispatch
  /\ k_status = "none"
  /\ k_pre = <<>>
  /\ smallest_ind = 0
  /\ \/ /\ k_flags \in AddTestFlags
        /\ k_arg0 = TensorFromFlags(InputVectorA, k_flags.arg1_encrypted, k_flags.arg1_packed,
                                    k_flags.complex_packing)
        /\ k_arg1 = TensorFromFlags(InputVectorB, k_flags.arg2_encrypted, k_flags.arg2_packed,
                                    k_flags.complex_packing)
        /\ k_out = ResultFromFlags(k_flags)
     \/ /\ k_flags = [NoFlags EXCEPT !.family = "scalar"]
        /\ \E x, y \in ScalarOperands, o \in OutputPriors :
             /\ k_arg0 = <<x>>
             /\ k_arg1 = <<y>>
             /\ k_out = <<o>>
     \/ /\ k_flags = [NoFlags EXCEPT !.family = "relu"]
        /\ k_arg0 \in [1..NumSlots -> ReluInputSlots]
        /\ k_arg1 = <<>>
        /\ k_out = <<>>

\* variant of LazyModInAdd that leaves the flag as it is
LazyModInAdd_Kept(lazy) == lazy

\* generate_calls, case Add: lazy_mod is switched off around add_seal
LazyModInAdd(lazy) == FALSE

\* generate_calls, case Add: add_seal with lazy_mod off; the flag is restored
\* after it
CallAdd ==
  /\ k_flags.family = "add_test"
  /\ k_status = "none"
  /\ LET r == AddSeal(k_arg0, k_arg1, k_out, Len(k_out), LazyModInAdd(lazy_mod)) IN
       /\ k_arg0' = r.arg0
       /\ k_arg1' = r.arg1
       /\ k_out' = r.out
       /\ k_status' = r.status
  /\ k_pre' = <<k_arg0, k_arg1, k_out>>
  /\ lazy_mod' = LazyModOnReturn("Add", lazy_mod)
  /\ UNCHANGED <<node_type, enable_client, checks_ok, dispatch, k_flags, smallest_ind>>
  /\ UNCHANGED <<protocolVars, livenessVars, limbVars, utilVars>>

\* a direct call of scalar_add_seal on one slot each; where the lazy_mod path
\* is not defined the call crashes or returns with whatever the output holds
CallScalarAdd ==
  /\ k_flags.family = "scalar"
  /\ k_status = "none"
  /\ LET r == ScalarAddSeal(k_arg0[1], k_arg1[1], k_out[1], lazy_mod) IN
       /\ k_arg0' = <<r.arg0>>
       /\ k_arg1' = <<r.arg1>>
       /\ IF r.status = "undefined"
            THEN \/ k_status' = "crash" /\ k_out' = <<r.out>>
                 \/ /\ k_status' = "ok"
                    /\ \E v \in Vectors(0, 1) : k_out' = <<[r.out EXCEPT !.vals = v]>>
            ELSE k_status' = r.status /\ k_out' = <<r.out>>
  /\ k_pre' = <<k_arg0, k_arg1, k_out>>
  /\ UNCHANGED <<generateCallsVars, k_flags, smallest_ind>>
  /\ UNCHANGED <<protocolVars, livenessVars, limbVars, utilVars>>

\* handle_server_relu_op, before any slot is processed or sent: the slots of
\* the input tensor are matched to their smallest chain index
MatchReluInput ==
  /\ k_flags.family = "relu"
  /\ k_status = "none"
  /\ k_arg0' = MatchToSmallestChainIndex(k_arg0)
  /\ smallest_ind' = SmallestChainIndex(k_arg0)
  /\ k_status' = "ok"
  /\ k_pre' = <<k_arg0, k_arg1, k_out>>
  /\ UNCHANGED <<generateCallsVars, k_arg1, k_out, k_flags>>
  /\ UNCHANGED <<protocolVars, livenessVars, limbVars, utilVars>>

KernelNext == CallAdd \/ CallScalarAdd \/ MatchReluInput

KernelSpec == KernelInit /\ [][KernelNext]_vars

----------------------------------------------------------------------------
(* The ciphertext overload of scalar_add_seal on one coefficient limb *)

RECURSIVE Pow2(_)
Pow2(n) == IF n = 0 THEN 1 ELSE 2 * Pow2(n - 1)

\* the values of a limb word
Words == 0..(Pow2(WordBits) - 1)

\* coefficient moduli: odd, at least one bit short of the word
Moduli == {q \in 3..(Pow2(WordBits - 1) - 1) : q % 2 = 1}

\* variant of LimbAdd that always takes the library path
LimbAdd_Library(arg0, arg1, out, lazy, q) == (arg0 + arg1) % q

\* the limb left in out: without lazy_mod the evaluator's add of arg0 and
\* arg1 modulo q; with lazy_mod the limb of arg0 is added into the limb out
\* holds, in the word, and arg1 is not read
LimbAdd(arg0, arg1, out, lazy, q) ==
  IF lazy THEN (out + arg0) % Pow2(WordBits) ELSE (arg0 + arg1) % q

\* mod_reduce_seal on a limb
ModReduce(limb, q) == limb % q

LimbInit ==
  /\ ProtocolIdle
  /\ LivenessIdle
  /\ KernelIdle
  /\ UtilIdle
  /\ node_type \in {"Add", "Dot"}
  /\ l_family = (IF node_type = "Dot" THEN "dot" ELSE "call")
  /\ enable_client = TRUE
  /\ lazy_mod \in BOOLEAN
  /\ checks_ok = TRUE
  /\ dispatch = NoDispatch
  /\ l_q \in Moduli
  /\ l_count = 0
  /\ l_sum = 0
  /\ l_phase = "ready"
  /\ l_pre = <<>>
  /\ IF l_family = "call"
       THEN /\ l_arg0 \in 0..(l_q - 1)
            /\ l_arg1 \in 0..(l_q - 1)
            /\ l_alias \in {"none", "arg0", "arg1"}
            /\ l_out \in Words
            /\ l_alias = "arg0" => l_out = l_arg0
            /\ l_alias = "arg1" => l_out = l_arg1
       ELSE /\ l_arg0 = 0
            /\ l_arg1 = 0
            /\ l_alias = "arg1"
            /\ l_out = 0

\* scalar_add_seal(arg0, arg1, out) on two ciphertexts in canonical form
CallCipherAdd ==
  /\ l_family = "call"
  /\ l_phase = "ready"
  /\ l_out' = LimbAdd(l_arg0, l_arg1, l_out, lazy_mod, l_q)
  /\ l_arg0' = (IF l_alias = "arg0" THEN l_out' ELSE l_arg0)
  /\ l_arg1' = (IF l_alias = "arg1" THEN l_out' ELSE l_arg1)
  /\ l_pre' = <<l_arg0, l_arg1, l_out>>
  /\ l_count' = 2
  /\ l_sum' = l_arg0 + l_arg1
  /\ l_phase' = "added"
  /\ UNCHANGED <<l_family, l_q, l_alias>>
  /\ UNCHANGED <<protocolVars, generateCallsVars, livenessVars, kernelVars, utilVars>>

\* dot_seal, first product of an output slot: the sum is the product
DotFirst ==
  /\ l_family = "dot"
  /\ l_phase = "ready"
  /\ \E prod \in 0..(l_q - 1) :
       /\ l_arg0' = prod
       /\ l_out' = prod
       /\ l_arg1' = prod
       /\ l_sum' = prod
  /\ l_count' = 1
  /\ l_phase' = "acc"
  /\ l_pre' = <<l_arg0, l_arg1, l_out>>
  /\ UNCHANGED <<l_family, l_q, l_alias>>
  /\ UNCHANGED <<protocolVars, generateCallsVars, livenessVars, kernelVars, utilVars>>

\* dot_seal, next product: scalar_add_seal(prod, sum, sum)
DotAccumulate ==
  /\ l_family = "dot"
  /\ l_phase = "acc"
  /\ l_count < MaxAccum
  /\ \E prod \in 0..(l_q - 1) :
       /\ l_arg0' = prod
       /\ l_out' = LimbAdd(prod, l_out, l_out, lazy_mod, l_q)
       /\ l_sum' = l_sum + prod
  /\ l_arg1' = l_out'
  /\ l_count' = l_count + 1
  /\ l_pre' = <<l_arg0, l_arg1, l_out>>
  /\ UNCHANGED <<l_family, l_q, l_alias, l_phase>>
  /\ UNCHANGED <<protocolVars, generateCallsVars, livenessVars, kernelVars, utilVars>>

\* generate_calls, case Dot, after dot_seal: mod_reduce_seal under lazy_mod
DotClose ==
  /\ l_family = "dot"
  /\ l_phase = "acc"
  /\ l_out' = (IF lazy_mod THEN ModReduce(l_out, l_q) ELSE l_out)
  /\ l_arg1' = l_out'
  /\ l_phase' = "closed"
  /\ l_pre' = <<l_arg0, l_arg1, l_out>>
  /\ UNCHANGED <<l_family, l_q, l_arg0, l_alias, l_count, l_sum>>
  /\ UNCHANGED <<protocolVars, generateCallsVars, livenessVars, kernelVars, utilVars>>

LimbNext == CallCipherAdd \/ DotFirst \/ DotAccumulate \/ DotClose

LimbSpec == LimbInit /\ [][LimbNext]_vars

----------------------------------------------------------------------------
(* match_modulus_and_scale_inplace on ciphertexts with their scales *)

\* a scale: the nominal scale times `primes` primes of the chain (divided by
\* them when negative), off by an infinitesimal drift or not
Scale(primes, drift) == [primes |-> primes, drift |-> drift]

\* a ciphertext with its scale
ScaledCipher(vals, chain, scale) == [vals |-> vals, chain |-> chain, scale |-> scale]

\* |log2(sa) - log2(sb)| < epsilon
WithinTolerance(sa, sb) == sa.primes = sb.primes

\* the scales differ by a factor equal to a prime of the chain
DifferByPrime(sa, sb) == sa.primes = sb.primes + 1 \/ sb.primes = sa.primes + 1

\* mod_switch_to(c, parms_id): down the chain, the scale is kept
ModSwitchTo(c, chain) == [c EXCEPT !.chain = chain]

\* rescale_to_next(c): one step down the chain, the scale divided by a prime
RescaleToNext(c) ==
  [c EXCEPT !.chain = c.chain - 1,
            !.scale = Scale(c.scale.primes - 1, c.scale.drift)]

\* decrypt and decode: the values a ciphertext holds, whatever its chain
\* index and scale
Decrypt(c) == c.vals

\* match_modulus_and_scale_inplace(a, b):
\*  1. the operand higher in the chain is mod-switched down to the other;
\*  2. scales within the tolerance: scale(a) := scale(b); scales a chain prime
\*     apart: the operand of the larger scale is rescaled one step;
\*  3. otherwise ScaleMismatch.  A rescale at the bottom of the chain is
\*     ChainExhausted.
MatchModulusAndScaleInplace(a, b) ==
  LET low == Min2(a.chain, b.chain)
      a1 == ModSwitchTo(a, low)
      b1 == ModSwitchTo(b, low)
  IN CASE a1.scale = b1.scale ->
            [arg0 |-> a1, arg1 |-> b1, status |-> "ok"]
       [] a1.scale # b1.scale /\ WithinTolerance(a1.scale, b1.scale) ->
            [arg0 |-> [a1 EXCEPT !.scale = b1.scale], arg1 |-> b1, status |-> "ok"]
       [] DifferByPrime(a1.scale, b1.scale) /\ low = 0 ->
            [arg0 |-> a1, arg1 |-> b1, status |-> "ChainExhausted"]
       [] DifferByPrime(a1.scale, b1.scale) /\ low > 0 ->
            IF a1.scale.primes > b1.scale.primes
              THEN [arg0 |-> RescaleToNext(a1), arg1 |-> b1, status |-> "ok"]
              ELSE [arg0 |-> a1, arg1 |-> RescaleToNext(b1), status |-> "ok"]
       [] OTHER ->
            [arg0 |-> a1, arg1 |-> b1, status |-> "ScaleMismatch"]

\* the ciphertexts of [7] at every chain index and scale
ScaledCiphers ==
  {ScaledCipher(<<7>>, c, Scale(p, d)) :
     c \in 0..MaxChainIndex, p \in (0 - MaxScaleSteps)..MaxScaleSteps, d \in BOOLEAN}

ScaleInit ==
  /\ ProtocolIdle
  /\ LivenessIdle
  /\ KernelIdle
  /\ LimbIdle
  /\ node_type = "Add"
  /\ enable_client = TRUE
  /\ lazy_mod = FALSE
  /\ checks_ok = TRUE
  /\ dispatch = NoDispatch
  /\ s_arg0 \in {<<c>> : c \in ScaledCiphers}
  /\ s_arg1 \in {<<c>> : c \in ScaledCiphers}
  /\ s_status = "none"
  /\ s_pre = <<>>
  /\ BindIdle
  /\ ParmsIdle
  /\ HandleIdle

\* one call of match_modulus_and_scale_inplace(s_arg0, s_arg1)
CallMatchModulusAndScale ==
  /\ s_status = "none"
  /\ s_arg0 # <<>>
  /\ LET r == MatchModulusAndScaleInplace(s_arg0[1], s_arg1[1]) IN
       /\ s_arg0' = <<r.arg0>>
       /\ s_arg1' = <<r.arg1>>
       /\ s_status' = r.status
  /\ s_pre' = <<s_arg0[1], s_arg1[1]>>
  /\ UNCHANGED <<protocolVars, generateCallsVars, livenessVars, kernelVars, limbVars,
                 bindVars, parmsVars, handleVars>>

ScaleNext == CallMatchModulusAndScale

ScaleSpec == ScaleInit /\ [][ScaleNext]_vars

----------------------------------------------------------------------------
(* call(): the binding of a parameter to its input tensor *)

HEOpAnnotations(from_client, encrypted, packed) ==
  [from_client |-> from_client, encrypted |-> encrypted, packed |-> packed]

HETensor(data, packed) == [isnull |-> FALSE, packed |-> packed, data |-> data]

\* a null std::shared_ptr<HETensor>
NullInput == [isnull |-> TRUE, packed |-> FALSE, data |-> <<>>]

\* HETensor::any_encrypted_data
AnyEncryptedData(t) == \E i \in 1..Len(t.data) : t.data[i].tag = "cipher"

\* HETensor::pack of a plaintext tensor: the batch axis is folded into the slots
Pack(t) ==
  IF t.packed THEN t
  ELSE HETensor([j \in 1..PackShapeSize |->
                   PlainSlot([b \in 1..BatchDim |->
                                t.data[(b - 1) * PackShapeSize + j].vals[1]],
                             t.data[j].complex_packing)],
                TRUE)

\* HETensor::unpack of a plaintext tensor: one slot per element
Unpack(t) ==
  IF ~t.packed THEN t
  ELSE HETensor([k \in 1..ShapeSize |->
                   PlainSlot(<<t.data[SlotOf(k - 1, TRUE)].vals[PosOf(k - 1, TRUE)]>>,
                             t.data[SlotOf(k - 1, TRUE)].complex_packing)],
                FALSE)

\* variant of EncryptSlot that encrypts every slot afresh
EncryptSlot_Every(slot) == CipherSlot(slot.vals, slot.complex_packing, MaxChainIndex)

\* call(): a plaintext slot is replaced by a fresh encryption of its
\* plaintext, a ciphertext slot is skipped
EncryptSlot(slot) ==
  IF slot.tag = "plain"
    THEN CipherSlot(slot.vals, slot.complex_packing, MaxChainIndex)
    ELSE slot

\* variant of FromClient that does not look at enable_client()
FromClient_Annotation(enable, annotation) == annotation.from_client

\* call(): the parameter is taken from m_client_inputs
FromClient(enable, annotation) == enable /\ annotation.from_client

\* call(): the server branch up to the check of the packed flag
PrepareServerInput(t, annotation) ==
  LET repacked == IF ~AnyEncryptedData(t)
                    THEN (IF annotation.packed THEN Pack(t) ELSE Unpack(t))
                    ELSE t
  IN IF annotation.encrypted
       THEN [repacked EXCEPT !.data = [i \in 1..Len(repacked.data) |->
                                          EncryptSlot(repacked.data[i])]]
       ELSE repacked

\* call(): one pass of the loop over the parameters.  The client tensor is
\* dereferenced before the null check: "undefined" for a null tensor.
BindParameter(enable, annotation, server, client) ==
  IF FromClient(enable, annotation)
    THEN [he_input |-> [from |-> "client", tensor |-> client],
          server |-> server,
          annotation |-> IF client.isnull THEN annotation
                         ELSE [annotation EXCEPT !.encrypted = AnyEncryptedData(client)],
          status |-> IF client.isnull THEN "undefined"
                     ELSE IF client.packed = annotation.packed THEN "ok"
                     ELSE "failed"]
    ELSE LET t == PrepareServerInput(server, annotation) IN
         [he_input |-> [from |-> "server", tensor |-> t],
          server |-> t,
          annotation |-> annotation,
          status |-> IF t.packed = annotation.packed THEN "ok" ELSE "failed"]

\* a tensor of the ShapeSize values of InputVectorA whose first k slots hold
\* ciphertexts further down the chain and whose other slots hold plaintexts
MixedTensor(k, packed) ==
  HETensor([j \in 1..(IF packed THEN PackShapeSize ELSE ShapeSize) |->
              IF j <= k
                THEN [TensorFromFlags(InputVectorA, TRUE, packed, FALSE)[j] EXCEPT !.chain = 1]
                ELSE TensorFromFlags(InputVectorA, FALSE, packed, FALSE)[j]],
           packed)

ServerTensors ==
  {MixedTensor(k, packed) : k \in 0..ShapeSize, packed \in BOOLEAN}

ClientTensors ==
  {NullInput} \cup
  {HETensor(TensorFromFlags(InputVectorB, e, packed, FALSE), packed) :
     e \in BOOLEAN, packed \in BOOLEAN}

BindInit ==
  /\ ProtocolIdle
  /\ LivenessIdle
  /\ KernelIdle
  /\ LimbIdle
  /\ ScaleIdle
  /\ ParmsIdle
  /\ HandleIdle
  /\ node_type = "Add"
  /\ enable_client = TRUE
  /\ lazy_mod = FALSE
  /\ checks_ok = TRUE
  /\ dispatch = NoDispatch
  /\ b_enable \in BOOLEAN
  /\ b_annotation \in {HEOpAnnotations(f, e, p) : f, e, p \in BOOLEAN}
  /\ b_server \in ServerTensors
  /\ b_client \in ClientTensors
  /\ b_input = <<>>
  /\ b_status = "none"
  /\ b_pre = <<>>

\* call(): bind the parameter; where the pass is undefined the call crashes
\* or goes on to fail the null check
CallBindParameter ==
  /\ b_status = "none"
  /\ b_annotation # <<>>
  /\ LET r == BindParameter(b_enable, b_annotation, b_server, b_client) IN
       /\ b_input' = r.he_input
       /\ b_server' = r.server
       /\ b_annotation' = r.annotation
       /\ IF r.status = "undefined"
            THEN b_status' \in {"crash", "failed"}
            ELSE b_status' = r.status
  /\ b_pre' = <<b_server, b_client, b_annotation>>
  /\ UNCHANGED <<b_enable, b_client>>
  /\ UNCHANGED <<protocolVars, generateCallsVars, livenessVars, kernelVars, limbVars,
                 scaleVars, parmsVars, handleVars>>

BindNext == CallBindParameter

BindSpec == BindInit /\ [][BindNext]_vars

----------------------------------------------------------------------------
(* HESealEncryptionParameters *)

\* seal::EncryptionParameters of the ckks scheme
SealParms(poly_modulus_degree, coeff_modulus) ==
  [poly_modulus_degree |-> poly_modulus_degree, coeff_modulus |-> coeff_modulus]

\* seal_security_level: the library's level, or an exception
SealSecurityLevel(level) ==
  CASE level = 0 -> "none"
    [] level = 128 -> "tc128"
    [] level = 192 -> "tc192"
    [] level = 256 -> "tc256"
    [] OTHER -> "error"

\* variant of ValidateParameters that does not ask the context
ValidateParameters_NoContext(scheme_name, parms, security_level, context_valid) ==
  CASE scheme_name # "HE_SEAL" -> "Invalid scheme name"
    [] scheme_name = "HE_SEAL" /\ parms.poly_modulus_degree
                                    \notin {1024, 2048, 4096, 8192, 16384, 32768}
         -> "poly_modulus_degree must be"
    [] OTHER -> IF security_level \notin {0, 128, 192, 256}
                  THEN "security_level must be"
                  ELSE "ok"

\* validate_parameters: the checks in the order of the code; context_valid is
\* what parameters_set() of the library's context answers
ValidateParameters(scheme_name, parms, security_level, context_valid) ==
  IF scheme_name # "HE_SEAL" THEN "Invalid scheme name"
  ELSE IF parms.poly_modulus_degree \notin {1024, 2048, 4096, 8192, 16384, 32768}
    THEN "poly_modulus_degree must be"
  ELSE IF security_level \notin {0, 128, 192, 256} THEN "security_level must be"
  ELSE IF SealSecurityLevel(security_level) = "error" THEN "error"
  ELSE IF ~context_valid THEN "Invalid parameters"
  ELSE "ok"

\* the object the constructors fill in
EncryptionParameters(scheme_name, parms, security_level, scale, complex_packing) ==
  [m_scheme_name |-> scheme_name,
   m_seal_encryption_parameters |-> parms,
   m_security_level |-> security_level,
   m_scale |-> scale,
   m_complex_packing |-> complex_packing]

\* operator==
ParmsEqual(a, b) ==
  /\ b.m_scheme_name = a.m_scheme_name
  /\ b.m_seal_encryption_parameters = a.m_seal_encryption_parameters
  /\ b.m_security_level = a.m_security_level
  /\ b.m_scale = a.m_scale
  /\ b.m_complex_packing = a.m_complex_packing

\* the object representation of an unsigned value in n bytes, low byte first
RECURSIVE ToBytes(_, _)
ToBytes(v, n) == IF n = 0 THEN <<>> ELSE <<v % 256>> \o ToBytes(v \div 256, n - 1)

\* the value held by a sequence of bytes, low byte first
RECURSIVE FromBytes(_)
FromBytes(bytes) ==
  IF bytes = <<>> THEN 0 ELSE Head(bytes) + 256 * FromBytes(Tail(bytes))

Slice(q, from, n) == SubSeq(q, from, from + n - 1)

\* seal::EncryptionParameters::save: the degree, the number of moduli and one
\* byte for the bit size of each
SealSave(parms) ==
  ToBytes(parms.poly_modulus_degree, 8)
    \o ToBytes(Len(parms.coeff_modulus), 8)
    \o parms.coeff_modulus

\* seal::EncryptionParameters::load
SealLoad(bytes) ==
  SealParms(FromBytes(Slice(bytes, 1, 8)),
            Slice(bytes, 17, FromBytes(Slice(bytes, 9, 8))))

\* save(): m_scale, m_complex_packing, m_security_level, then the library's
\* parameters.  A scale is held as the integer it equals.
Save(parms) ==
  ToBytes(parms.m_scale, 8)
    \o ToBytes(IF parms.m_complex_packing THEN 1 ELSE 0, 1)
    \o ToBytes(parms.m_security_level, 8)
    \o SealSave(parms.m_seal_encryption_parameters)

\* variant of LoadFields that reads the security level before the packing flag
LoadFields_LevelFirst(stream) ==
  [scale |-> FromBytes(Slice(stream, 1, 8)),
   security_level |-> FromBytes(Slice(stream, 9, 8)),
   complex_packing |-> FromBytes(Slice(stream, 17, 1)) # 0,
   parms |-> SealLoad(SubSeq(stream, 18, Len(stream)))]

\* load(): the fields in the order they are read
LoadFields(stream) ==
  [scale |-> FromBytes(Slice(stream, 1, 8)),
   complex_packing |-> FromBytes(Slice(stream, 9, 1)) # 0,
   security_level |-> FromBytes(Slice(stream, 10, 8)),
   parms |-> SealLoad(SubSeq(stream, 18, Len(stream)))]

\* the arguments of the constructors: with kind "bits" the library's
\* parameters are made by CoeffModulus::Create, which may throw
ConstructorArgs ==
  [kind : {"parms", "bits"},
   create_ok : BOOLEAN,
   scheme_name : {"HE_SEAL", "CKKS"},
   poly_modulus_degree : {512, 1024, 8192, 32768, 65536},
   coeff_modulus : {<<30, 30, 30, 30, 30>>, <<60, 40, 40, 60>>},
   security_level : {0, 42, 128, 192, 256, 512},
   scale : {16777216, 1073741824},
   complex_packing : BOOLEAN,
   context_valid : BOOLEAN]

SecurityLevels == {0, 1, 42, 127, 128, 129, 192, 255, 256, 257}

ParmsInit ==
  /\ ProtocolIdle
  /\ LivenessIdle
  /\ KernelIdle
  /\ LimbIdle
  /\ ScaleIdle
  /\ BindIdle
  /\ HandleIdle
  /\ node_type = "Add"
  /\ enable_client = TRUE
  /\ lazy_mod = FALSE
  /\ checks_ok = TRUE
  /\ dispatch = NoDispatch
  /\ p_args \in ConstructorArgs
  /\ p_parms = <<>>
  /\ p_status = "none"
  /\ p_stream = <<>>
  /\ p_loaded = <<>>
  /\ p_load_status = "none"
  /\ p_level = <<>>

parmsRest == <<protocolVars, generateCallsVars, livenessVars, kernelVars, limbVars,
               scaleVars, bindVars, handleVars>>

\* the constructors of HESealEncryptionParameters
Construct ==
  /\ p_status = "none"
  /\ p_args # <<>>
  /\ LET parms == SealParms(p_args.poly_modulus_degree, p_args.coeff_modulus)
         status == IF p_args.kind = "bits" /\ ~p_args.create_ok
                     THEN "CoeffModulus::Create"
                     ELSE ValidateParameters(p_args.scheme_name, parms,
                                             p_args.security_level, p_args.context_valid)
     IN /\ p_status' = status
        /\ p_parms' = IF status = "ok"
                        THEN EncryptionParameters(p_args.scheme_name, parms,
                                                  p_args.security_level, p_args.scale,
                                                  p_args.complex_packing)
                        ELSE <<>>
  /\ UNCHANGED <<p_args, p_stream, p_loaded, p_load_status, p_level, parmsRest>>

\* save() of the constructed object to an empty stream
CallSave ==
  /\ p_status = "ok"
  /\ p_stream = <<>>
  /\ p_stream' = Save(p_parms)
  /\ UNCHANGED <<p_args, p_parms, p_status, p_loaded, p_load_status, p_level, parmsRest>>

\* load() from the stream: the constructor validates what was read
CallLoad ==
  /\ p_stream # <<>>
  /\ p_load_status = "none"
  /\ LET f == LoadFields(p_stream)
         status == ValidateParameters("HE_SEAL", f.parms, f.security_level,
                                      p_args.context_valid)
     IN /\ p_load_status' = status
        /\ p_loaded' = IF status = "ok"
                         THEN EncryptionParameters("HE_SEAL", f.parms, f.security_level,
                                                   f.scale, f.complex_packing)
                         ELSE <<>>
  /\ UNCHANGED <<p_args, p_parms, p_status, p_stream, p_level, parmsRest>>

\* a call of seal_security_level
CallSealSecurityLevel ==
  /\ p_args # <<>>
  /\ p_level = <<>>
  /\ \E level \in SecurityLevels : p_level' = <<level, SealSecurityLevel(level)>>
  /\ UNCHANGED <<p_args, p_parms, p_status, p_stream, p_loaded, p_load_status, parmsRest>>

ParmsNext == Construct \/ CallSave \/ CallLoad \/ CallSealSecurityLevel

ParmsSpec == ParmsInit /\ [][ParmsNext]_vars

----------------------------------------------------------------------------
(* The ciphertext handles of a client-aided op *)

\* the copy of an HEType slot: the copy of a ciphertext slot holds the same
\* handle as the original
CopySlot(slot) == slot

CopySlots(data) == [i \in 1..Len(data) |-> CopySlot(data[i])]

\* HETensor::load_from_pb_tensor: n ciphertexts in storage of their own
LoadedSlots(next, n) == [k \in 1..n |-> Cipher(next + k)]

\* the input tensors: slot i holds a plaintext or the ciphertext handle i
HandleArgs ==
  {[i \in 1..NumSlots |-> IF i \in C THEN Cipher(i) ELSE Plain(0)] : C \in SUBSET (1..NumSlots)}

handleRest == <<protocolVars, generateCallsVars, livenessVars, kernelVars, limbVars,
                scaleVars, bindVars, parmsVars>>

\* the first client-aided op of a call starts on its input
HandleInit ==
  /\ ProtocolIdle
  /\ LivenessIdle
  /\ KernelIdle
  /\ LimbIdle
  /\ ScaleIdle
  /\ BindIdle
  /\ ParmsIdle
  /\ node_type = "Relu"
  /\ enable_client = TRUE
  /\ lazy_mod = FALSE
  /\ checks_ok = TRUE
  /\ dispatch = NoDispatch
  /\ h_op \in {"Relu", "MaxPool"}
  /\ h_pc = "start"
  /\ h_arg \in HandleArgs
  /\ h_out = <<>>
  /\ h_request = <<>>
  /\ h_buffer = <<>>
  /\ h_unknown = <<>>
  /\ h_pos = 0
  /\ h_done = 0
  /\ h_next = NumSlots
  /\ h_count = 1

\* the output cells of the op's max pooling
Cells == MaximizeLists(Len(h_arg))

\* handle_server_relu_op / handle_server_max_pool_op up to the first request
HandleStart ==
  /\ h_pc = "start"
  /\ IF h_op = "Relu"
       THEN /\ h_buffer' = KnownReluData(h_buffer, h_arg, "Relu")
            /\ h_unknown' = UnknownReluIdx(h_arg)
            /\ h_pc' = IF h_unknown' = <<>> THEN "wait" ELSE "send"
       ELSE /\ h_buffer' = <<>>
            /\ h_unknown' = <<>>
            /\ h_pc' = IF Len(Cells) = 0 THEN "wait" ELSE "send"
  /\ UNCHANGED <<h_op, h_arg, h_out, h_request, h_pos, h_done, h_next, h_count,
                 handleRest>>

\* the request tensor of the next batch or cell: relu_tensor->data() =
\* cipher_batch, max_pool_tensor.data() = cipher_batch
HandleBuildRequest ==
  /\ h_pc = "send"
  /\ LET idxs == IF h_op = "Relu" THEN ReluBatchIdx(h_unknown, h_pos)
                 ELSE Cells[h_pos + 1]
     IN /\ h_request' = CopySlots(Gather(h_arg, idxs))
        /\ h_pos' = IF h_op = "Relu" THEN h_pos + Len(idxs) ELSE h_pos + 1
  /\ h_pc' = "written"
  /\ UNCHANGED <<h_op, h_arg, h_out, h_buffer, h_unknown, h_done, h_next, h_count,
                 handleRest>>

\* the request is written and its tensor goes out of scope
HandleReleaseRequest ==
  /\ h_pc = "written"
  /\ h_request' = <<>>
  /\ h_pc' = IF h_op = "Relu" /\ h_pos < Len(h_unknown) THEN "send" ELSE "wait"
  /\ UNCHANGED <<h_op, h_arg, h_out, h_buffer, h_unknown, h_pos, h_done, h_next, h_count,
                 handleRest>>

\* handle_relu_result / handle_max_pool_result: the slots of the loaded
\* tensor are copied into the buffer, and the loaded tensor is dropped
HandleResult ==
  /\ h_pc = "wait"
  /\ IF h_op = "Relu"
       THEN /\ h_done < Len(h_unknown)
            /\ LET idxs == ReluBatchIdx(h_unknown, h_done)
                   loaded == LoadedSlots(h_next, Len(idxs))
               IN /\ h_buffer' = [i \in 1..Len(h_buffer) |->
                                    IF \E k \in 1..Len(idxs) : idxs[k] = i
                                      THEN CopySlot(loaded[CHOOSE k \in 1..Len(idxs) :
                                                             idxs[k] = i])
                                      ELSE h_buffer[i]]
                  /\ h_done' = h_done + Len(idxs)
                  /\ h_next' = h_next + Len(idxs)
            /\ h_pc' = h_pc
       ELSE /\ h_done < h_pos
            /\ h_buffer' = Append(h_buffer, CopySlot(LoadedSlots(h_next, 1)[1]))
            /\ h_next' = h_next + 1
            /\ h_done' = h_done + 1
            /\ h_pc' = IF h_done' < Len(Cells) THEN "send" ELSE "wait"
  /\ UNCHANGED <<h_op, h_arg, h_out, h_request, h_unknown, h_pos, h_count, handleRest>>

\* the end of the op: out->data() = m_relu_data / m_max_pool_data
HandleAssignOut ==
  /\ h_pc = "wait"
  /\ h_done = (IF h_op = "Relu" THEN Len(h_unknown) ELSE Len(Cells))
  /\ h_out' = CopySlots(h_buffer)
  /\ h_done' = 0
  /\ h_pc' = "done"
  /\ UNCHANGED <<h_op, h_arg, h_request, h_buffer, h_unknown, h_pos, h_next, h_count,
                 handleRest>>

\* the next client-aided op of the graph reads the tensor this one wrote; the
\* tensor this one read is freed
HandleNextOp ==
  /\ h_pc = "done"
  /\ h_count < NumOpNodes
  /\ h_op' \in {"Relu", "MaxPool"}
  /\ h_arg' = h_out
  /\ h_out' = <<>>
  /\ h_pos' = 0
  /\ h_pc' = "start"
  /\ h_count' = h_count + 1
  /\ UNCHANGED <<h_request, h_buffer, h_unknown, h_done, h_next, handleRest>>

HandleNext ==
  \/ HandleStart
  \/ HandleBuildRequest
  \/ HandleReleaseRequest
  \/ HandleResult
  \/ HandleAssignOut
  \/ HandleNextOp

HandleSpec == HandleInit /\ [][HandleNext]_vars

----------------------------------------------------------------------------
(* Properties of the client-aided protocol *)

InSeq(x, q) == \E i \in 1..Len(q) : q[i] = x

IndexSet(q) == {q[k] : k \in 1..Len(q)}

\* what the client returns for one input slot of a Relu / BoundedRelu request
ClientReluSlot(fn, slot) == Cipher(ReluFn(fn, slot.val))

\* the main thread sits in a condition-variable wait whose predicate is false
Blocked ==
  \/ pc = "setup_wait" /\ ~m_session_started
  \/ pc = "inputs_wait" /\ ~m_client_inputs_received
  \/ pc = "relu_wait" /\ m_relu_done_count # Len(m_unknown_relu_idx)
  \/ pc = "mp_wait" /\ ~m_max_pool_done
  \/ pc = "result_wait" /\ outbox # <<>>

\* C1: when a client-mode Relu / BoundedRelu returns and the client has
\* followed the protocol, output slot i is the local (bounded) relu of input
\* slot i where that slot is plaintext and the client's response for input
\* slot i where it is a ciphertext; this holds for every op of the graph's
\* sequence of ops; no plaintext slot is ever shipped to the client.
C1_ReluOffloadCorrect ==
  /\ [](pc \in {"relu_send", "relu_wait"} =>
          \A i \in sentSlots : IsCiphertext(arg[i]))
  /\ [][(pc = "relu_wait" /\ pc' = "node" /\ ~faulty) =>
          /\ Len(arg') = Len(arg)
          /\ \A i \in 1..Len(arg) :
               arg'[i] = IF IsPlaintext(arg[i])
                           THEN Plain(ReluFn(CurrentOp, arg[i].val))
                           ELSE ClientReluSlot(CurrentOp, arg[i])]_vars

\* a Relu followed by a BoundedRelu have both returned on an input that
\* mixes plaintext and ciphertext slots
C1_Witness ==
  /\ graph = <<"Relu", "BoundedRelu">> /\ pc = "node" /\ nodeIdx = 3 /\ ~faulty
  /\ \E i, j \in 1..Len(arg) : arg[i].tag = "plain" /\ arg[j].tag = "cipher"

\* C2: a client-mode MaxPool writes one request per output cell, writes the
\* request of the next cell only after the single-slot response of the
\* previous one has been handled, and returns the responses in request
\* order, so the number of rounds is the number of output cells.
C2_MaxPoolRounds ==
  /\ [](pc = "mp_send" /\ ~faulty => opReq = sendPos /\ opResp = sendPos)
  /\ [](pc = "mp_wait" /\ ~faulty => opReq = sendPos + 1 /\ opResp \in {sendPos, sendPos + 1})
  /\ [][(pc = "mp_wait" /\ pc' = "node" /\ ~faulty) =>
          /\ opReq = Len(MaximizeLists(Len(arg))) /\ opResp = opReq
          /\ Len(arg') = Len(MaximizeLists(Len(arg)))
          /\ \A k \in 1..Len(arg') :
               arg'[k] = Cipher(MaxOfSeq([j \in 1..Len(MaximizeLists(Len(arg))[k]) |->
                                            arg[MaximizeLists(Len(arg))[k][j]].val]))]_vars

\* a MaxPool over the whole client tensor has returned
C2_Witness ==
  /\ pc = "node" /\ nodeIdx = 2 /\ graph[1] = "MaxPool" /\ ~faulty
  /\ Len(arg) = NumSlots - 1 /\ opResp = NumSlots - 1

\* C3: the encryption parameters are written only once a session has been
\* accepted, and the inference-shape ("Parameter") request is sent only when
\* the public key and, under key switching, the client's relinearization
\* key have been loaded.
C3_HandshakeOrder ==
  /\ (InSeq(EncryptionParametersMsg, outbox) \/ InSeq(EncryptionParametersMsg, toClient)
        \/ m_server_setup \/ cpc \in {"wait_shape", "serve"})
       => (m_session_started /\ session # "none")
  /\ (InSeq(InferenceShapeRequest, outbox) \/ InSeq(InferenceShapeRequest, toClient)
        \/ m_sent_inference_shape \/ cpc = "serve")
       => /\ m_client_public_key_set /\ m_client_eval_key_set
          /\ ~InSeq(PublicKeyMsg, toServer)
          /\ keyswitching => ~InSeq(EvalKeyMsg, toServer)

\* under key switching the client has received the inference-shape request
C3_Witness == keyswitching /\ cpc = "serve" /\ m_sent_inference_shape

\* C4: whenever call is about to bind the parameters, every from_client
\* parameter has a client tensor that was received for this call, has all
\* its chunks loaded and is the tensor the client sent; it is not null.
C4_BindAfterClientInputs ==
  pc = "bind" =>
    /\ inputsCall \in 1..callNo
    /\ \A i \in 1..NumParams :
         fromClient[i] =>
           /\ ~m_client_inputs[i].isnull
           /\ DoneLoading(m_client_inputs[i])
           /\ m_client_inputs[i].data = ClientTensorData(ParamNames[i], clientInput)

C6_CloseAbortsBlockedCall ==
  (session = "closed" /\ Blocked /\ Running /\ ~faulty) ~> (pc = "aborted")

\* C7: handle_server_relu_op leaves its wait only when m_relu_done_count is
\* the number of unknown slots and a result has been stored for each of
\* them, and leaves m_relu_done_count at 0; with fair scheduling and a client
\* that stays connected, it does leave the wait.
C7_ReluWait ==
  /\ [][(pc = "relu_wait" /\ pc' # "relu_wait") =>
          /\ m_relu_done_count = Len(m_unknown_relu_idx)
          /\ reluStored = IndexSet(m_unknown_relu_idx)
          /\ m_relu_done_count' = 0]_vars
  /\ (pc = "relu_wait") ~>
       (pc = "node" /\ m_relu_done_count = 0) \/ session = "closed" \/ ~Running

\* a Relu whose input is all ciphertext (two batches) has returned
C7_Witness ==
  /\ pc = "node" /\ nodeIdx = 2 /\ graph[1] = "Relu"
  /\ Len(m_unknown_relu_idx) = NumSlots /\ m_relu_done_count = 0
  /\ reluStored = 1..NumSlots

\* C8: after the session thread has met a malformed message, the session is
\* closed and the call in progress fails.
C8_MalformedFailsCall ==
  (proc = "terminated") ~> (session = "closed" /\ pc = "failed")

----------------------------------------------------------------------------
(* Properties of generate_calls *)

\* the operator ids of the supported set
SupportedOps ==
  {"Add", "AvgPool", "BatchNormInference", "BoundedRelu", "Broadcast", "Concat",
   "Constant", "Convolution", "Divide", "Dot", "Exp", "Max", "MaxPool",
   "Minimum", "Multiply", "Negative", "Pad", "Parameter", "Power", "Relu",
   "Reshape", "Result", "Reverse", "Slice", "Softmax", "Subtract", "Sum"}

Dispatched == dispatch.status # "none"

\* C10 as stated: generate_calls dispatches a kernel exactly for the ids of
\* the supported set; for every other id, UnknownOp included, it fails with
\* unsupported_op and writes no output.
C10_KernelExactlyForSupported ==
  Dispatched =>
    /\ (dispatch.kernels # <<>>) <=> (node_type \in SupportedOps)
    /\ node_type \notin SupportedOps =>
         dispatch.status = "unsupported_op" /\ ~dispatch.out_written

\* C10 as amended: generate_calls fails with unsupported_op exactly for the
\* ids outside the supported set, UnknownOp included, and then calls no
\* kernel and writes no output; for an id of the set it runs the case's
\* kernel or client offload and writes the output, except that Parameter is
\* skipped (no kernel, no write), that Exp and Max fail a check in client
\* mode, and that a case whose own checks fail calls no kernel.
C10_DispatchSupported ==
  Dispatched =>
    /\ (dispatch.status = "unsupported_op") <=> (node_type \notin SupportedOps)
    /\ dispatch.status # "ok" => dispatch.kernels = <<>> /\ ~dispatch.out_written
    /\ (node_type \in SupportedOps \ {"Parameter"} /\ dispatch.status = "ok")
         => dispatch.kernels # <<>> /\ dispatch.out_written
    /\ node_type = "Parameter"
         => dispatch.status = "ok" /\ dispatch.kernels = <<>> /\ ~dispatch.out_written
    /\ (node_type \in {"Exp", "Max"} /\ enable_client) => dispatch.status = "check_failed"
    /\ (node_type \in SupportedOps \ {"Exp", "Max"} /\ checks_ok)
         => dispatch.status = "ok"
    /\ (node_type \in SupportedOps /\ ~enable_client /\ checks_ok)
         => dispatch.status = "ok"

\* a type that is not in the op table has been rejected
C10_Witness ==
  /\ node_type \in UnregisteredTypes /\ dispatch.status = "unsupported_op"
  /\ ~dispatch.out_written

----------------------------------------------------------------------------
(* Properties of the node loop *)

\* C11: no node reads a tensor that an earlier node's free-list processing
\* has erased from the tensor map: every input lookup of every node, in
\* topological order, succeeds.
C11_LivenessSafety ==
  /\ lookup = "ok"
  /\ \A i \in 1..Len(m_nodes) :
       i >= node_pos => m_nodes[i].inputs \cap erased = {}
  /\ (node_pos \in 1..Len(m_nodes) /\ m_nodes[node_pos].kind # "parameter")
       => m_nodes[node_pos].inputs \subseteq MapKeys(tensor_map)

\* the loop has finished on a function in which a tensor read by two nodes
\* was erased
C11_Witness ==
  /\ node_pos = Len(m_nodes) + 1
  /\ \E t \in erased :
       Cardinality({i \in 1..Len(m_nodes) : t \in m_nodes[i].inputs}) = 2

----------------------------------------------------------------------------
(* Properties of the add kernel *)

\* exp_result of add_test at the 0-based index i
ExpResult(f, i) ==
  IF f.arg1_packed = f.arg2_packed THEN InputVectorA[i + 1] + InputVectorB[i + 1]
  ELSE IF f.arg1_packed THEN InputVectorA[i + 1] + InputVectorB[(i % PackShapeSize) + 1]
  ELSE InputVectorA[(i % PackShapeSize) + 1] + InputVectorB[i + 1]

\* C12: an Add node over two parameters of the same shape gives, for every
\* combination of plain/cipher operands, real/complex packing and
\* packed/unpacked operands, the element-wise sum; when exactly one operand
\* is packed, the unpacked one is indexed modulo the packed element count.
C12_AddElementwise ==
  (k_flags.family = "add_test" /\ k_status # "none") =>
    /\ k_status = "ok"
    /\ \A i \in 0..(ShapeSize - 1) :
         LET packed == k_flags.arg1_packed \/ k_flags.arg2_packed
             slot == k_out[SlotOf(i, packed)]
         IN /\ PosOf(i, packed) <= Len(slot.vals)
            /\ slot.vals[PosOf(i, packed)] = ExpResult(k_flags, i)

C12_Witness ==
  /\ k_flags.family = "add_test"
  /\ k_status = "ok"
  /\ k_flags.arg1_encrypted /\ ~k_flags.arg2_encrypted
  /\ k_flags.arg1_packed /\ ~k_flags.arg2_packed
  /\ k_flags.complex_packing
  /\ k_out[2].vals[2] = InputVectorA[PackShapeSize + 2] + InputVectorB[2]

\* the operands and the output slot of a direct call, before the call
PreArg0 == k_pre[1][1]
PreArg1 == k_pre[2][1]
PreOut == k_pre[3][1]

ScalarDone == k_flags.family = "scalar" /\ k_status # "none"

\* C13: scalar_add_seal sets the tag of the output slot from the operands,
\* whatever the slot held before: ciphertext when at least one operand is a
\* ciphertext, plaintext when both are plaintexts; the slot holds the sum.
C13_OutputTagFromOperands ==
  (ScalarDone /\ k_status = "ok") =>
    /\ k_out[1].tag = (IF PreArg0.tag = "cipher" \/ PreArg1.tag = "cipher"
                         THEN "cipher" ELSE "plain")
    /\ (Len(PreArg0.vals) = 1 /\ Len(PreArg1.vals) = 1)
         => k_out[1].vals = <<PreArg0.vals[1] + PreArg1.vals[1]>>

C13_Witness ==
  /\ ScalarDone
  /\ k_status = "ok"
  /\ PreArg0.tag = "cipher" /\ PreArg1.tag = "cipher"
  /\ PreOut.tag = "plain"
  /\ k_out[1].tag = "cipher"
  /\ k_out[1].vals = <<14>>

\* C14: plaintext + plaintext broadcasts a scalar: when arg0 has size 1 the
\* result has the size of arg1 and holds arg1[i] + arg0[0]; otherwise when
\* arg1 has size 1 the result has the size of arg0 and holds
\* arg0[i] + arg1[0]; otherwise it holds the element-wise sum over the
\* smaller of the two sizes.
C14_PlainPlainBroadcast ==
  (ScalarDone /\ k_status = "ok" /\ PreArg0.tag = "plain" /\ PreArg1.tag = "plain") =>
    LET a == PreArg0.vals
        b == PreArg1.vals
        o == k_out[1].vals
    IN IF Len(a) = 1
         THEN Len(o) = Len(b) /\ \A i \in 1..Len(b) : o[i] = b[i] + a[1]
       ELSE IF Len(b) = 1
         THEN Len(o) = Len(a) /\ \A i \in 1..Len(a) : o[i] = a[i] + b[1]
       ELSE /\ Len(o) = Min2(Len(a), Len(b))
            /\ \A i \in 1..Len(o) : o[i] = a[i] + b[i]

C14_Witness ==
  /\ ScalarDone
  /\ k_status = "ok"
  /\ PreArg0 = PlainSlot(<<7>>, FALSE)
  /\ PreArg1 = PlainSlot(<<7, 0>>, FALSE)
  /\ k_out[1] = PlainSlot(<<14, 7>>, FALSE)

\* the output slot holds what the operand x held: same tag, same values
SameValue(out, x) == out.tag = x.tag /\ out.vals = x.vals

\* C15: the empty plaintext is the additive identity: for every operand x
\* (a plaintext of any size or a ciphertext), x + empty and empty + x are x.
C15_EmptyIsIdentity ==
  (ScalarDone /\ k_status = "ok") =>
    /\ PreArg1 = PlainSlot(<<>>, PreArg1.complex_packing) => SameValue(k_out[1], PreArg0)
    /\ PreArg0 = PlainSlot(<<>>, PreArg0.complex_packing) => SameValue(k_out[1], PreArg1)

\* C16: an add whose operands disagree on complex_packing fails with an
\* error and leaves the output slot as it was; when they agree, the output
\* carries the operands' complex_packing.
C16_ComplexPackingChecked ==
  ScalarDone =>
    IF PreArg0.complex_packing # PreArg1.complex_packing
      THEN k_status = "error" /\ k_out[1] = PreOut
      ELSE k_status # "error" /\ k_out[1].complex_packing = PreArg0.complex_packing

C16_Witness ==
  /\ ScalarDone
  /\ PreArg0.complex_packing /\ ~PreArg1.complex_packing
  /\ PreArg0.tag = "cipher" /\ PreArg1.tag = "plain"
  /\ k_status = "error"
  /\ k_out[1] = PlainSlot(<<8>>, TRUE)

----------------------------------------------------------------------------
(* Properties of the lazy_mod path *)

BitCount(q) == CHOOSE b \in 1..WordBits : Pow2(b - 1) <= q /\ q < Pow2(b)
SafeCount(q) == Pow2(WordBits - BitCount(q))

\* C18: on the lazy_mod path, summing canonical limbs (each below q < 2^b) in
\* the word does not wrap as long as at most 2^(WordBits - b) limbs are
\* summed, so the accumulated limb reduced modulo q is the true sum modulo q;
\* the path does not reduce and does not check for overflow.
C18_NoWrapWithinBound ==
  (l_family = "dot" /\ l_phase = "acc" /\ lazy_mod) =>
    /\ l_out = l_sum % Pow2(WordBits)
    /\ l_count <= SafeCount(l_q) => (l_sum < Pow2(WordBits) /\ l_out % l_q = l_sum % l_q)

C18_Witness ==
  /\ l_family = "dot"
  /\ l_phase = "acc"
  /\ lazy_mod
  /\ l_count = SafeCount(l_q)
  /\ l_count > 1
  /\ l_out >= l_q
  /\ l_out = l_sum

\* C19: when the lazy_mod accumulations into one ciphertext exceed the safe
\* bound, this is detected and a mod_reduce is forced before any limb wraps,
\* so the result stays correct.
C19_OverflowRecovered ==
  (l_family = "dot" /\ lazy_mod) =>
    /\ l_phase = "acc" => l_out % l_q = l_sum % l_q
    /\ l_phase = "closed" => l_out = l_sum % l_q

----------------------------------------------------------------------------
(* Properties of the operands of a kernel *)

KernelDone == k_flags.family # "none" /\ k_status # "none"

SwitchedTo(now, before, c) == now = [before EXCEPT !.chain = c]

----------------------------------------------------------------------------
(* Properties of the kernels generate_calls runs *)

\* C28: generate_calls runs the Add and the Multiply kernel with the
\* backend's lazy_mod flag cleared, and when the dispatch returns the flag
\* has the value it had on entry; dispatching any other operator does not
\* change the flag.
C28_LazyModAroundAddMultiply ==
  Dispatched =>
    /\ lazy_mod = dispatch.lazy_entry
    /\ (dispatch.status = "ok" /\ node_type \in {"Add", "Multiply"})
         => ~dispatch.kernels[1].lazy_mod
    /\ (dispatch.status = "ok" /\ node_type \notin {"Add", "Multiply"})
         => \A i \in 1..Len(dispatch.kernels) :
              dispatch.kernels[i].lazy_mod = dispatch.lazy_entry

C28_Witness ==
  /\ Dispatched
  /\ node_type = "Multiply"
  /\ dispatch.lazy_entry
  /\ lazy_mod
  /\ dispatch.kernels[1] = KernelCall("multiply_seal", FALSE)

\* the kernels of the dispatch after its first one
ClosingKernels == [i \in 1..(Len(dispatch.kernels) - 1) |-> dispatch.kernels[i + 1].kernel]

MultiplicativeOps == {"Multiply", "Dot", "Convolution", "AvgPool", "BatchNormInference"}

----------------------------------------------------------------------------
(* Properties of the batches of a client-aided Relu / BoundedRelu *)

InReluOp == Running /\ pc \in {"relu_send", "relu_wait"}

\* the indices of the ciphertext slots of the op's input
CipherSlots == {i \in 1..Len(arg) : arg[i].tag = "cipher"}

\* the n-th ciphertext slot of the op's input, in increasing order
\* (0 when there are fewer than n)
NthCipherSlot(n) ==
  IF n \in 1..Cardinality(CipherSlots)
    THEN CHOOSE i \in CipherSlots : Cardinality({j \in CipherSlots : j < i}) = n - 1
    ELSE 0

\* the slots shipped so far are the first ones, each shipped once, in full
\* batches while the op is still sending
BatchesSoFar ==
  InReluOp =>
    /\ sentSlots = {NthCipherSlot(n) : n \in 1..Cardinality(sentSlots)}
    /\ pc = "relu_send" => Cardinality(sentSlots) = opReq * max_relu_message_cnt
    /\ pc = "relu_wait" =>
         /\ sentSlots = CipherSlots
         /\ (opReq - 1) * max_relu_message_cnt < Cardinality(CipherSlots)
         /\ Cardinality(CipherSlots) <= opReq * max_relu_message_cnt
    /\ (pc = "relu_wait" /\ CipherSlots = {}) =>
         opReq = 0 /\ ReluWaitPred(m_relu_done_count, <<>>)

\* a request written by the op holds the next ciphertext slots in increasing
\* order, at most max_relu_message_cnt of them, none shipped before
NextBatch ==
  (InReluOp /\ opReq' = opReq + 1) =>
    LET batch == outbox'[Len(outbox')].tensors[1].data
        first == Cardinality(sentSlots)
    IN /\ Len(batch) \in 1..max_relu_message_cnt
       /\ \A k \in 1..Len(batch) :
            /\ NthCipherSlot(first + k) # 0
            /\ batch[k] = arg[NthCipherSlot(first + k)]
       /\ sentSlots' \ sentSlots = {NthCipherSlot(first + k) : k \in 1..Len(batch)}
       /\ pc' = "relu_send" => Len(batch) = max_relu_message_cnt

\* C30: in a client-aided Relu / BoundedRelu the ciphertext slot indices are
\* taken in increasing order and split into consecutive batches of at most
\* max_relu_message_cnt slots, all but the last full; every ciphertext slot is
\* in exactly one batch and no plaintext slot is in any; with no ciphertext
\* slot no request is sent and the op does not wait for the client.
C30_ReluBatches == [](BatchesSoFar) /\ [][NextBatch]_vars

C30_Witness ==
  /\ InReluOp
  /\ pc = "relu_wait"
  /\ opReq = 2
  /\ Cardinality(CipherSlots) = max_relu_message_cnt + 1
  /\ sentSlots = CipherSlots

----------------------------------------------------------------------------
(* Properties of send_client_results *)

\* the result messages among the messages of a queue
ResultsIn(box) == {i \in 1..Len(box) : box[i].type = "RESPONSE" /\ box[i].tensors # <<>>}

\* the call writes a result message only from send_client_results, after the
\* last node of the graph, with no offload op in progress, and the message
\* holds the input of the Result node
ResultWritten ==
  (Len(outbox') = Len(outbox) + 1 /\ ResultsIn(<<outbox'[Len(outbox')]>>) # {}) =>
    /\ pc = "send_results"
    /\ nodeIdx = Len(graph) + 1
    /\ m_relu_done_count = 0
    /\ \A i \in 1..Len(outbox) : outbox[i].type # "REQUEST"
    /\ m_client_outputs = <<arg>>
    /\ outbox'[Len(outbox')] = ResultMsg(arg)

\* the call returns from send_client_results with an empty write queue
ReturnedAfterWrite ==
  (pc = "result_wait" /\ pc' = "idle") =>
    /\ outbox = <<>>
    /\ ResultsIn(toClient) # {} \/ Len(clientResults) > 0

\* C27: in client mode call() sends the result to the client only after every
\* node of the graph has been executed, no offload round being in progress;
\* the tensor sent is the input of the Result node; and call() returns only
\* once the session is no longer writing.
C27_ResultSentLast == [][ResultWritten /\ ReturnedAfterWrite]_vars

C27_Witness ==
  /\ pc = "idle"
  /\ callNo = 1
  /\ \E i \in 1..Len(graph) : graph[i] \in {"Relu", "BoundedRelu", "MaxPool"}
  /\ outbox = <<>>
  /\ m_client_outputs = <<arg>>
  /\ Len(clientResults) = 1

----------------------------------------------------------------------------
(* Properties of match_to_smallest_chain_index *)

MatchDone == k_flags.family = "relu" /\ k_status # "none"

\* the indices of the ciphertext slots the vector held before the call
PreCipherIdx == {i \in 1..Len(k_pre[1]) : k_pre[1][i].tag = "cipher"}

\* C25: match_to_smallest_chain_index returns the least chain index among the
\* ciphertext slots of the vector and leaves every ciphertext slot at that
\* index; plaintext slots and the length of the vector are unchanged; with no
\* ciphertext slot it returns the size_t maximum and changes nothing.
C25_MatchToSmallestChainIndex ==
  MatchDone =>
    /\ Len(k_arg0) = Len(k_pre[1])
    /\ \A i \in (1..Len(k_pre[1])) \ PreCipherIdx : k_arg0[i] = k_pre[1][i]
    /\ IF PreCipherIdx = {}
         THEN smallest_ind = SIZE_MAX /\ k_arg0 = k_pre[1]
         ELSE /\ \E i \in PreCipherIdx : smallest_ind = k_pre[1][i].chain
              /\ \A i \in PreCipherIdx :
                   /\ smallest_ind <= k_pre[1][i].chain
                   /\ k_arg0[i].tag = "cipher"
                   /\ k_arg0[i].chain = smallest_ind

C25_Witness ==
  /\ MatchDone
  /\ k_pre[1][1] = PlainSlot(<<7>>, FALSE)
  /\ k_pre[1][2] = CipherSlot(<<7>>, FALSE, MaxChainIndex)
  /\ k_pre[1][3] = CipherSlot(<<7>>, FALSE, 1)
  /\ smallest_ind = 1
  /\ k_arg0[1] = PlainSlot(<<7>>, FALSE)
  /\ k_arg0[2].chain = 1

----------------------------------------------------------------------------
(* Properties of match_modulus_and_scale_inplace *)

ScaleMatched == s_status = "ok"

\* C26 as stated: after match_modulus_and_scale_inplace(a, b) returns without
\* error, a and b are at the same chain index, the lower of the two before
\* the call, their scales match, and both decrypt to what they held before,
\* in either argument order.
C26_SameChainIndexAndScale ==
  ScaleMatched =>
    /\ s_arg0[1].chain = s_arg1[1].chain
    /\ s_arg0[1].chain = Min2(s_pre[1].chain, s_pre[2].chain)
    /\ WithinTolerance(s_arg0[1].scale, s_arg1[1].scale)
    /\ Decrypt(s_arg0[1]) = Decrypt(s_pre[1])
    /\ Decrypt(s_arg1[1]) = Decrypt(s_pre[2])

----------------------------------------------------------------------------
(* Properties of the binding of a parameter *)

BindDone == b_status # "none"

\* the parameter is bound to the tensor the client provided exactly when the
\* client is enabled and the parameter is annotated from_client, otherwise to
\* the server input, which is bound as the object it is
BoundToClientOrServer ==
  /\ b_input.from = "client" <=> (b_enable /\ b_pre[3].from_client)
  /\ b_input.from = "client" => b_input.tensor = b_pre[2] /\ b_server = b_pre[1]
  /\ b_input.from = "server" => b_input.tensor = b_server

\* a server-bound parameter annotated encrypted: every slot is a ciphertext,
\* the ciphertexts it had are as they were, and every other slot is a
\* ciphertext of the plaintext that was there
ServerInputEncrypted ==
  (b_input.from = "server" /\ b_pre[3].encrypted) =>
    /\ \A i \in 1..Len(b_server.data) : b_server.data[i].tag = "cipher"
    /\ AnyEncryptedData(b_pre[1]) =>
         /\ Len(b_server.data) = Len(b_pre[1].data)
         /\ \A i \in 1..Len(b_server.data) :
              IF b_pre[1].data[i].tag = "cipher"
                THEN b_server.data[i] = b_pre[1].data[i]
                ELSE b_server.data[i].vals = b_pre[1].data[i].vals
    /\ ~AnyEncryptedData(b_pre[1]) =>
         \A k \in 0..(ShapeSize - 1) :
           b_server.data[SlotOf(k, b_server.packed)].vals[PosOf(k, b_server.packed)]
             = InputVectorA[k + 1]

\* the tensor the parameter is to be bound to, as it was handed to call()
ProvidedTensor == IF b_enable /\ b_pre[3].from_client THEN b_pre[2] ELSE b_pre[1]

\* C22 as stated: the parameter is bound to the client tensor exactly when the
\* client is enabled and the parameter is from_client, else to the server
\* input; a server-bound parameter annotated encrypted has its plaintext slots
\* encrypted in place; and the binding fails if the packed flag of the tensor
\* differs from the packed flag of the annotation.
C22_BindingAsStated ==
  BindDone =>
    /\ BoundToClientOrServer
    /\ ServerInputEncrypted
    /\ (~ProvidedTensor.isnull /\ ProvidedTensor.packed # b_pre[3].packed)
         => b_status = "failed"

\* C22: as above, but a server input with no ciphertext slot is first packed
\* or unpacked as the annotation says, so that its binding never fails; the
\* binding fails exactly when a client tensor, or a server input holding a
\* ciphertext, has a packed flag that differs from the annotation's (or the
\* client tensor is missing).
C22_Binding ==
  BindDone =>
    /\ BoundToClientOrServer
    /\ ServerInputEncrypted
    /\ (b_input.from = "server" /\ ~AnyEncryptedData(b_pre[1])) =>
         /\ b_status = "ok"
         /\ b_server.packed = b_pre[3].packed
    /\ (b_input.from = "server" /\ AnyEncryptedData(b_pre[1])) =>
         /\ b_server.packed = b_pre[1].packed
         /\ b_status = "failed" <=> b_pre[1].packed # b_pre[3].packed
         /\ b_status \in {"ok", "failed"}
    /\ (b_input.from = "client" /\ ~b_pre[2].isnull) =>
         /\ b_status = "failed" <=> b_pre[2].packed # b_pre[3].packed
         /\ b_status \in {"ok", "failed"}
    /\ (b_input.from = "client" /\ b_pre[2].isnull) => b_status \in {"crash", "failed"}

C22_Witness ==
  /\ BindDone
  /\ b_status = "ok"
  /\ b_enable
  /\ ~b_pre[3].from_client
  /\ b_pre[3].encrypted
  /\ b_pre[1] = MixedTensor(1, FALSE)
  /\ b_input.from = "server"
  /\ b_server.data[1] = b_pre[1].data[1]
  /\ b_server.data[2] = CipherSlot(<<InputVectorA[2]>>, FALSE, MaxChainIndex)

----------------------------------------------------------------------------
(* Properties of HESealEncryptionParameters *)

Constructed == p_status = "ok"

\* C23: the construction of encryption parameters succeeds only when the
\* scheme name is "HE_SEAL", poly_modulus_degree is one of 1024, 2048, 4096,
\* 8192, 16384, 32768, security_level is one of 0, 128, 192, 256 and the
\* derived context reports its parameters as valid; every other combination
\* raises an error; seal_security_level raises for every level outside
\* {0, 128, 192, 256}.
C23_ValidParameters ==
  /\ p_status # "none" =>
       (Constructed =>
          /\ p_args.scheme_name = "HE_SEAL"
          /\ p_args.poly_modulus_degree \in {1024, 2048, 4096, 8192, 16384, 32768}
          /\ p_args.security_level \in {0, 128, 192, 256}
          /\ p_args.context_valid
          /\ p_parms # <<>>)
  /\ (p_status # "none" /\ ~Constructed) => p_parms = <<>>
  /\ p_level # <<>> =>
       (p_level[2] = "error" <=> p_level[1] \notin {0, 128, 192, 256})

C23_Witness ==
  /\ Constructed
  /\ p_args.poly_modulus_degree = 8192
  /\ p_args.security_level = 128
  /\ p_level = <<42, "error">>

\* C24: for every valid parameter set p, load(save(p)) equals p under
\* operator==; save writes scale (8 bytes), complex_packing (1 byte),
\* security_level (8 bytes) and the library's blob, in this order, which is
\* the order load reads them.
C24_SaveLoadRoundTrip ==
  /\ p_stream # <<>> =>
       /\ Len(p_stream) > 17
       /\ FromBytes(SubSeq(p_stream, 1, 8)) = p_parms.m_scale
       /\ p_stream[9] = (IF p_parms.m_complex_packing THEN 1 ELSE 0)
       /\ FromBytes(SubSeq(p_stream, 10, 17)) = p_parms.m_security_level
       /\ SealLoad(SubSeq(p_stream, 18, Len(p_stream)))
            = p_parms.m_seal_encryption_parameters
  /\ p_load_status # "none" =>
       /\ p_load_status = "ok"
       /\ ParmsEqual(p_loaded, p_parms)

C24_Witness ==
  /\ p_load_status = "ok"
  /\ p_parms.m_complex_packing
  /\ p_parms.m_security_level = 256
  /\ p_parms.m_scale = 1073741824
  /\ p_parms.m_seal_encryption_parameters = SealParms(8192, <<60, 40, 40, 60>>)
  /\ ParmsEqual(p_loaded, p_parms)

----------------------------------------------------------------------------
(* Properties of the ciphertext handles *)

\* the ciphertext handles a slot vector holds
Handles(data) == {data[i].val : i \in {j \in 1..Len(data) : data[j].tag = "cipher"}}

\* C21 as stated: at every point of a call no ciphertext handle is held by
\* two of the input tensor, the output tensor, the request tensor built for
\* the offload and the executor's result buffer.
C21_NoSharedHandle ==
  h_op # "none" =>
    /\ Handles(h_arg) \cap Handles(h_request) = {}
    /\ Handles(h_arg) \cap Handles(h_buffer) = {}
    /\ Handles(h_arg) \cap Handles(h_out) = {}
    /\ Handles(h_request) \cap Handles(h_buffer) = {}
    /\ Handles(h_request) \cap Handles(h_out) = {}
    /\ Handles(h_buffer) \cap Handles(h_out) = {}

----------------------------------------------------------------------------
(* Properties of the client-input table *)

\* a client tensor has been stored in m_client_inputs
TensorStored == \E i \in 1..Len(m_client_inputs) : ~m_client_inputs[i].isnull

\* the clear-and-resize of server_setup drops no stored tensor
ResizeDropsNothing == (pc = "setup_resize" /\ pc' = "inputs_wait") => ~TensorStored

\* C37: m_client_inputs has one entry per parameter before the session thread
\* handles a client tensor message, and the clear-and-resize of server_setup
\* never runs after a tensor was stored: no received tensor is discarded and
\* the table is never indexed out of range.
C37_TableSizedBeforeClientTensors ==
  [](TensorStored => tableSized) /\ [][ResizeDropsNothing]_vars

----------------------------------------------------------------------------
(* C38 *)

\* a Relu result message of one slot, as a client writes it
ReluResultMsg == Message("RESPONSE", FALSE, FALSE, FALSE, "Relu", <<BadTensor>>)

\* the client writes a Relu result the server did not ask for: beside the
\* answers to the requests, or while no op waits
ClientSendReluResult ==
  /\ UNCHANGED dispatchVars
  /\ Running /\ session = "open" /\ ~faulty
  /\ toServer' = Append(toServer, ReluResultMsg)
  /\ faulty' = TRUE
  /\ UNCHANGED <<staticVars, mainVars, flagVars, inputVars, reluVars, poolVars,
                 m_client_outputs, acceptor, session, outbox, toClient, proc, cpc,
                 clientInput, clientResults, histVars>>

ResultNext == Next \/ ClientSendReluResult

\* the executable with a client that may send any sequence of Relu results
ResultSpec == Init /\ [][ResultNext]_vars

\* handle_relu_result is about to run on the message at the head of the queue
ReluResultAtHead ==
  /\ Running /\ session = "open" /\ toServer # <<>>
  /\ Head(toServer).type = "RESPONSE"
  /\ Head(toServer).fn \in {"Relu", "BoundedRelu"}
  /\ Len(Head(toServer).tensors) = 1

\* every index handle_relu_result uses for the message at the head of the
\* queue lies within m_unknown_relu_idx and m_relu_data
ReluWritesInRange ==
  \A k \in 1..Len(Head(toServer).tensors[1].data) :
     /\ k + m_relu_done_count \in 1..Len(m_unknown_relu_idx)
     /\ m_unknown_relu_idx[k + m_relu_done_count] \in 1..Len(m_relu_data)

DoneCountWithinUnknown == m_relu_done_count <= Len(m_unknown_relu_idx)

\* C38: for every sequence of Relu result messages, m_relu_done_count never
\* exceeds the number of unknown slots and every index used to write
\* m_relu_data is in range
C38_ReluResultsInRange ==
  [](DoneCountWithinUnknown /\ (ReluResultAtHead => ReluWritesInRange))

----------------------------------------------------------------------------
(* C40: a kernel that raises inside generate_calls *)

\* the dispatch when the case's first kernel raises: the kernel was entered,
\* nothing after it ran and the output was not written
KernelRaised(d) ==
  [status |-> "kernel_failed", kernels |-> <<d.kernels[1]>>, out_written |-> FALSE,
   lazy_entry |-> d.lazy_entry]

\* the backend's lazy_mod flag when the case's first kernel has raised: Add
\* and Multiply have cleared a set flag before the kernel, and the statement
\* that sets it again is not reached
LazyModOnRaise(id, lazy) ==
  IF id \in {"Add", "Multiply"} THEN (IF lazy THEN FALSE ELSE lazy) ELSE lazy

\* generate_calls when the first kernel of the case raises
KernelRaiseStep ==
  /\ dispatch.status = "none"
  /\ LET d == GenerateCalls(node_type, enable_client, lazy_mod, checks_ok) IN
       /\ d.status = "ok" /\ d.kernels # <<>>
       /\ dispatch' = KernelRaised(d)
  /\ lazy_mod' = LazyModOnRaise(GetTypeid(node_type), lazy_mod)
  /\ UNCHANGED <<node_type, enable_client, checks_ok>>
  /\ UNCHANGED <<protocolVars, livenessVars, kernelVars, limbVars, utilVars>>

RaiseNext == GenerateCallsStep \/ KernelRaiseStep

\* generate_calls on one node, with kernels that may raise
RaiseSpec == DispatchInit /\ [][RaiseNext]_vars

\* C40: if the Add or Multiply kernel raises while generate_calls has
\* lazy_mod cleared, the flag is restored to the value it had on entry
C40_LazyModRestoredOnError ==
  (dispatch.status = "kernel_failed" /\ node_type \in {"Add", "Multiply"})
    => lazy_mod = dispatch.lazy_entry

----------------------------------------------------------------------------
(* C39: the session is set up once *)

\* the step appends msg to the session's write queue
Writes(msg) == Len(outbox') = Len(outbox) + 1 /\ outbox'[Len(outbox')] = msg

\* start_server() runs in the step
ServerStarted == acceptor' = "armed" /\ acceptor # "armed"

SetupOnceStep ==
  /\ ServerStarted => (acceptor = "none" /\ ~m_server_setup)
  /\ acceptor # "none" => acceptor' # "none"
  /\ Writes(EncryptionParametersMsg) => (~m_server_setup /\ m_server_setup')
  /\ m_server_setup => m_server_setup'
  /\ Writes(InferenceShapeRequest) => (~m_sent_inference_shape /\ m_sent_inference_shape')
  /\ m_sent_inference_shape => m_sent_inference_shape'

\* C39: across the calls of an executable in client mode the server is
\* started, the EncryptionParameters message is written and the
\* inference-shape request is sent at most once each: each of the three
\* happens only while its flag is clear, sets it, and the flag stays set
C39_SetupOnce == [][SetupOnceStep]_vars

\* a second call has passed server_setup() and bound its inputs
C39_Witness ==
  /\ callNo = 2 /\ pc = "node"
  /\ m_server_setup /\ m_sent_inference_shape /\ acceptor = "done"

----------------------------------------------------------------------------
(* C35: accept errors *)

\* variant of AcceptorAfterCompletion that gives up after an error
AcceptorAfterCompletion_NoRetry(ec) == IF ec THEN "none" ELSE "done"

\* accept_connection: the acceptor once the completion handler has run with
\* error code ec: armed again by the call of accept_connection() in the else
\* branch, or done
AcceptorAfterCompletion(ec) == IF ec THEN "armed" ELSE "done"

\* the asynchronous accept completes with an error; its handler is queued
AcceptFail ==
  /\ UNCHANGED dispatchVars
  /\ Running /\ acceptor = "armed"
  /\ acceptor' = "failed"
  /\ UNCHANGED <<staticVars, mainVars, flagVars, inputVars, reluVars, poolVars,
                 m_client_outputs, session, outbox, toClient, toServer, proc,
                 clientVars, histVars>>

\* accept_connection: the completion handler runs with an error code
AcceptRetry ==
  /\ UNCHANGED dispatchVars
  /\ Running /\ acceptor = "failed"
  /\ acceptor' = AcceptorAfterCompletion(TRUE)
  /\ sessionWrites' = sessionWrites \cup {W("m_acceptor", "none")}
  /\ UNCHANGED <<staticVars, mainVars, flagVars, inputVars, reluVars, poolVars,
                 m_client_outputs, session, outbox, toClient, toServer, proc,
                 clientVars, opReq, opResp, reluStored, sentSlots, inputsCall>>

AcceptNext == Next \/ AcceptFail \/ AcceptRetry

\* the executable with an acceptor whose accepts may fail; the io thread
\* runs the completion handlers, the main thread and the client as in FairSpec
\* an executable whose graph is a MaxPool followed by a Relu, both
\* parameters from the client, under key switching
AcceptInit ==
  /\ Init
  /\ graph = <<"MaxPool", "Relu">>
  /\ fromClient = <<TRUE, TRUE>>
  /\ keyswitching

AcceptSpec ==
  /\ AcceptInit /\ [][AcceptNext]_vars
  /\ WF_vars(MainStep)
  /\ WF_vars(SessionStep \/ AcceptRetry)
  /\ WF_vars(ClientReceive)

AcceptStep ==
  /\ (acceptor = "failed" /\ acceptor' # "failed") => acceptor' = "armed"
  /\ (m_session_started' /\ ~m_session_started)
       => (acceptor = "armed" /\ acceptor' = "done" /\ session' = "open")
  /\ m_session_started => (acceptor' = "done" /\ m_session_started')
  /\ (pc = "setup_wait" /\ pc' # "setup_wait") => m_session_started

\* C35: after an accept that completed with an error the accept is armed
\* again; m_session_started becomes true only in the step of a successful
\* accept that starts the session, and from then on the acceptor stays done;
\* server_setup leaves its wait only with the flag set, and with fair
\* scheduling it does leave it once an accept has succeeded
C35_AcceptRetried ==
  /\ [][AcceptStep]_vars
  /\ [](m_session_started => (acceptor = "done" /\ session # "none"))
  /\ (acceptor = "failed") ~> (acceptor = "armed" \/ ~Running)
  /\ (pc = "setup_wait" /\ m_session_started) ~> (pc # "setup_wait" \/ ~Running)

\* server_setup has left its wait after an accept that failed and was retried
C35_Witness ==
  /\ m_server_setup /\ m_session_started /\ acceptor = "done"
  /\ W("m_acceptor", "none") \in sessionWrites

----------------------------------------------------------------------------
(* C36: set_batch_size *)

\* CKKSEncoder::slot_count(): half the polynomial modulus degree
SlotCount(parms) == parms.m_seal_encryption_parameters.poly_modulus_degree \div 2

\* set_batch_size: max_batch_size
MaxBatchSize(parms) ==
  IF parms.m_complex_packing THEN SlotCount(parms) * 2 ELSE SlotCount(parms)

\* HETensor::batch_size(shape, packed): shape[0] when packed, else 1
TensorBatchSize(shape0, packed) == IF packed THEN shape0 ELSE 1

\* variant of SetBatchSize without the NGRAPH_CHECK
SetBatchSize_Unchecked(current, batch_size, parms) ==
  [raised |-> FALSE, m_batch_size |-> batch_size]

\* set_batch_size: the check against max_batch_size, then the assignment
SetBatchSize(current, batch_size, parms) ==
  IF batch_size <= MaxBatchSize(parms)
    THEN [raised |-> FALSE, m_batch_size |-> batch_size]
    ELSE [raised |-> TRUE, m_batch_size |-> current]

\* the valid encryption parameters of a backend
BackendParameters ==
  {EncryptionParameters("HE_SEAL", SealParms(n, <<30, 30, 30, 30, 30>>), 0, 1073741824, c) :
     n \in {1024, 2048, 4096, 8192, 16384, 32768}, c \in BOOLEAN}

\* the first dimensions of the tensors offered: around both limits
BatchDims(parms) ==
  {1, SlotCount(parms), SlotCount(parms) + 1, 2 * SlotCount(parms),
   2 * SlotCount(parms) + 1}

BatchInit ==
  /\ ProtocolIdle
  /\ DispatchIdle
  /\ LivenessIdle
  /\ KernelIdle
  /\ LimbIdle
  /\ ScaleIdle
  /\ BindIdle
  /\ HandleIdle
  /\ p_args = <<>>
  /\ p_parms \in BackendParameters
  /\ p_status = "ok"
  /\ p_stream = <<>>
  /\ p_loaded = <<>>
  /\ p_load_status = "none"
  /\ p_level = <<>>

batchRest == <<staticVars, callNo, nodeIdx, arg, he_inputs, sendPos, flagVars,
               m_client_inputs, tableSized, m_client_inputs_received, reluVars, poolVars,
               m_client_outputs, netVars, clientVars, histVars, dispatchVars>>

\* handle_client_ciphers on the session thread: the batch size of the
\* client's tensor; a failed check ends the session thread
ClientTensorBatchSize ==
  /\ Running
  /\ \E shape0 \in BatchDims(p_parms), packed \in BOOLEAN :
       LET r == SetBatchSize(m_batch_size, TensorBatchSize(shape0, packed), p_parms) IN
         /\ m_batch_size' = r.m_batch_size
         /\ proc' = IF r.raised THEN "terminated" ELSE proc
  /\ UNCHANGED <<pc, batchRest>>

\* call() on the main thread: the batch size of a packed input; a failed
\* check fails the call
PackedInputBatchSize ==
  /\ Running /\ pc \in {"idle", "failed"}
  /\ \E shape0 \in BatchDims(p_parms) :
       LET r == SetBatchSize(m_batch_size, shape0, p_parms) IN
         /\ m_batch_size' = r.m_batch_size
         /\ pc' = IF r.raised THEN "failed" ELSE "idle"
  /\ UNCHANGED <<proc, batchRest>>

BatchNext == ClientTensorBatchSize \/ PackedInputBatchSize

\* an executable whose batch size is set by client tensors and packed inputs
BatchSpec == BatchInit /\ [][BatchNext]_vars

\* the step is a set_batch_size that raises
BatchSizeRaised ==
  \/ proc' = "terminated" /\ proc # "terminated"
  \/ pc' = "failed" /\ pc # "failed"

\* C36: the batch size is at most slot_count, or twice slot_count under
\* complex packing, in every reachable state, and a set_batch_size that
\* raises leaves it unchanged
C36_BatchSizeBounded ==
  /\ [](m_batch_size <= (IF p_parms.m_complex_packing THEN 2 ELSE 1) * SlotCount(p_parms))
  /\ [][BatchSizeRaised => m_batch_size' = m_batch_size]_vars

\* the batch size is at the limit of complex packing after a larger one
\* was refused on the main thread
C36_Witness ==
  /\ p_parms.m_complex_packing /\ m_batch_size = 2 * SlotCount(p_parms)
  /\ pc = "failed"

----------------------------------------------------------------------------
(* C32: the free list of a node *)

\* the step runs a node that is not a parameter
NodeExecuted ==
  /\ node_pos \in 1..Len(m_nodes) /\ node_pos' = node_pos + 1
  /\ m_nodes[node_pos].kind # "parameter"

\* C32: after a non-parameter node has been executed, every tensor of its
\* liveness_free_list is absent from the tensor map, and every entry the
\* map had, and the entry of the node's output, is still there unless its
\* tensor is on the list
C32_FreeListErased ==
  [][NodeExecuted =>
       /\ m_nodes[node_pos].liveness_free_list \cap MapKeys(tensor_map') = {}
       /\ \A e \in tensor_map :
            e.key \notin m_nodes[node_pos].liveness_free_list => e \in tensor_map'
       /\ m_nodes[node_pos].output \notin m_nodes[node_pos].liveness_free_list
            => m_nodes[node_pos].output \in MapKeys(tensor_map')]_vars

\* the loop has finished, every op's output was erased and the tensors of
\* the parameters and of the result are still mapped
C32_Witness ==
  /\ node_pos = Len(m_nodes) + 1
  /\ erased = {OpTensor(k) : k \in 1..NumOpNodes}
  /\ MapKeys(tensor_map) = PersistentTensors

----------------------------------------------------------------------------
(* C33: scalar_add_seal on a ciphertext and a plaintext *)

\* an HEType slot holding the ciphertext storage handle, which decrypts to
\* vals at a chain index and a scale
StoredCipher(vals, cp, chain, scale, handle) ==
  [tag |-> "cipher", vals |-> vals, complex_packing |-> cp, chain |-> chain,
   scale |-> scale, handle |-> handle]

\* an HEType slot holding a plaintext
StoredPlain(vals, cp) ==
  [tag |-> "plain", vals |-> vals, complex_packing |-> cp, chain |-> 0,
   scale |-> 0, handle |-> 0]

\* the storage of the ciphertext operand, of a ciphertext the output slot
\* holds before the call, of HESealBackend::create_empty_ciphertext() and of
\* std::make_shared<SealCiphertextWrapper>(tmp)
OperandHandle == 1
PriorOutHandle == 2
EmptyCiphertextHandle == 3
MakeSharedHandle == 4

\* scalar_add_seal(SealCiphertextWrapper&, const HEPlaintext&, out, complex_packing):
\* the output slot and the path taken
CipherPlainAdd(arg0, arg1, out, complex_packing) ==
  LET storage == IF out.tag = "cipher" THEN out.handle ELSE EmptyCiphertextHandle IN
  IF AddZero(arg1.vals)
    THEN [out |-> StoredCipher(arg0.vals, complex_packing, arg0.chain, arg0.scale,
                               MakeSharedHandle),
          status |-> "copied"]
  ELSE IF Len(arg1.vals) = 1 /\ ~complex_packing
    THEN [out |-> StoredCipher(BroadcastAdd(arg0.vals, arg1.vals), complex_packing,
                               arg0.chain, arg0.scale, storage),
          status |-> "add_plain"]
  ELSE [out |-> StoredCipher(BroadcastAdd(arg0.vals, arg1.vals), complex_packing,
                             arg0.chain, arg0.scale, storage),
        status |-> "encode, add_plain"]

\* scalar_add_seal(HEType&, HEType&, HEType&) on a ciphertext and a
\* plaintext, in either order
ScalarAddMixed(arg0, arg1, out) ==
  IF ~PackingAgrees(arg0, arg1)
    THEN [out |-> out, status |-> "error"]
  ELSE IF arg0.tag = "cipher"
    THEN CipherPlainAdd(arg0, arg1, out, arg0.complex_packing)
    ELSE CipherPlainAdd(arg1, arg0, out, arg0.complex_packing)

CipherOperands ==
  {StoredCipher(v, cp, c, sc, OperandHandle) :
     v \in Vectors(1, MaxPlainSize), cp \in BOOLEAN, c \in 1..MaxChainIndex,
     sc \in {16777216, 1073741824}}

PlainOperands == {StoredPlain(v, cp) : v \in Vectors(0, MaxPlainSize), cp \in BOOLEAN}

MixedOutputPriors ==
  {StoredPlain(<<>>, FALSE), StoredCipher(<<8>>, TRUE, 1, 1073741824, PriorOutHandle)}

MixedInit ==
  /\ ProtocolIdle
  /\ LivenessIdle
  /\ LimbIdle
  /\ UtilIdle
  /\ DispatchIdle
  /\ k_flags = [NoFlags EXCEPT !.family = "cipher_plain"]
  /\ \E c \in CipherOperands, q \in PlainOperands, o \in MixedOutputPriors :
       /\ \/ k_arg0 = <<c>> /\ k_arg1 = <<q>>
          \/ k_arg0 = <<q>> /\ k_arg1 = <<c>>
       /\ k_out = <<o>>
  /\ k_status = "none"
  /\ k_pre = <<>>
  /\ smallest_ind = 0

\* a call of scalar_add_seal on a ciphertext and a plaintext
CallScalarAddMixed ==
  /\ k_flags.family = "cipher_plain"
  /\ k_status = "none"
  /\ LET r == ScalarAddMixed(k_arg0[1], k_arg1[1], k_out[1]) IN
       /\ k_out' = <<r.out>>
       /\ k_status' = r.status
  /\ k_pre' = <<k_arg0, k_arg1, k_out>>
  /\ UNCHANGED <<generateCallsVars, k_arg0, k_arg1, k_flags, smallest_ind>>
  /\ UNCHANGED <<protocolVars, livenessVars, limbVars, utilVars>>

MixedNext == CallScalarAddMixed

MixedSpec == MixedInit /\ [][MixedNext]_vars

\* the ciphertext and the plaintext operand of the call
CipherOperand == IF k_arg0[1].tag = "cipher" THEN k_arg0[1] ELSE k_arg1[1]
PlainOperand == IF k_arg0[1].tag = "cipher" THEN k_arg1[1] ELSE k_arg0[1]

\* C33: a ciphertext plus a plaintext that is empty or the single value 0
\* returns without an encoding or a library add; the output is a copy of
\* the ciphertext operand (same value, chain index and scale) in storage of
\* its own, and the operands are as they were; a plaintext plus a ciphertext
\* gives what the ciphertext plus the plaintext gives
C33_AddZeroCopies ==
  (k_flags.family = "cipher_plain" /\ k_status \notin {"none", "error"}) =>
    /\ (PlainOperand.vals = <<>> \/ PlainOperand.vals = <<0>>) =>
         /\ k_status = "copied"
         /\ k_out[1].tag = "cipher"
         /\ k_out[1].vals = CipherOperand.vals
         /\ k_out[1].chain = CipherOperand.chain
         /\ k_out[1].scale = CipherOperand.scale
         /\ k_out[1].handle \notin {CipherOperand.handle, k_pre[3][1].handle}
    /\ (PlainOperand.vals # <<>> /\ PlainOperand.vals # <<0>>) => k_status # "copied"
    /\ k_arg0 = k_pre[1] /\ k_arg1 = k_pre[2]
    /\ k_out[1] = CipherPlainAdd(CipherOperand, PlainOperand, k_pre[3][1],
                                 CipherOperand.complex_packing).out

\* the plaintext [0] was added to a ciphertext from the left, into a slot
\* that held a ciphertext
C33_Witness ==
  /\ k_flags.family = "cipher_plain" /\ k_status = "copied"
  /\ k_arg0[1].tag = "plain" /\ k_arg0[1].vals = <<0>>
  /\ k_pre[3][1].tag = "cipher"
  /\ k_out[1].handle = MakeSharedHandle

----------------------------------------------------------------------------
(* C34: parse_config_or_use_default *)

\* a key the JSON object does not have, and a value of the wrong JSON type
Missing == "missing"
WrongType == "wrong type"

\* a field of the JSON object: given with a value of the type the parser
\* converts from, missing, or of another type
JsonField(state, value) == [state |-> state, value |-> value]

Given(field) == field.state = "given"

\* seal::CoeffModulus::Create: one modulus per entry of the bit sizes; a
\* modulus of b bits is held as 2^b
CoeffModulusCreate(bits) == [i \in 1..Len(bits) |-> Pow2(bits[i])]

\* floor of the square root, by Newton's iteration from above
RECURSIVE SqrtFrom(_, _)
SqrtFrom(n, r) == IF r <= n \div r THEN r ELSE SqrtFrom(n, (r + n \div r) \div 2)

Sqrt(n) == IF n = 0 THEN 0 ELSE SqrtFrom(n, n)

\* variant of ChooseScale that takes the last modulus of three or more
ChooseScale_Last(coeff_moduli) ==
  IF Len(coeff_moduli) > 2 THEN coeff_moduli[Len(coeff_moduli)]
  ELSE IF Len(coeff_moduli) > 1 THEN coeff_moduli[Len(coeff_moduli)] \div 4096
  ELSE Sqrt(coeff_moduli[Len(coeff_moduli)] \div 256)

\* choose_scale
ChooseScale(coeff_moduli) ==
  IF Len(coeff_moduli) > 2 THEN coeff_moduli[Len(coeff_moduli) - 1]
  ELSE IF Len(coeff_moduli) > 1 THEN coeff_moduli[Len(coeff_moduli)] \div 4096
  ELSE Sqrt(coeff_moduli[Len(coeff_moduli)] \div 256)

\* default_real_packing_parms()
DefaultRealPackingParms ==
  EncryptionParameters("HE_SEAL", SealParms(1024, <<30, 30, 30, 30, 30>>), 0,
                       1073741824, FALSE)

\* parse_config_or_use_default: the parameters returned, or the error
\* raised; create_ok and context_valid are the answers of
\* CoeffModulus::Create and of the library's context
ParseConfigOrUseDefault(config) ==
  IF config.kind \in {"null", "empty"}
    THEN [status |-> "ok", parms |-> DefaultRealPackingParms]
  ELSE IF config.kind # "json"
    THEN [status |-> "ngraph_error", parms |-> <<>>]
  ELSE IF config.scheme_name = Missing \/ config.scheme_name # "HE_SEAL"
    THEN [status |-> "ngraph_error", parms |-> <<>>]
  ELSE IF \/ ~Given(config.poly_modulus_degree)
          \/ ~Given(config.security_level)
          \/ ~Given(config.coeff_modulus)
    THEN [status |-> "ngraph_error", parms |-> <<>>]
  ELSE IF config.scale.state = WrongType \/ config.complex_packing.state = WrongType
    THEN [status |-> "ngraph_error", parms |-> <<>>]
  ELSE IF ~config.create_ok
    THEN [status |-> "ngraph_error", parms |-> <<>>]
  ELSE LET scale == IF config.scale.state = Missing
                      THEN ChooseScale(CoeffModulusCreate(config.coeff_modulus.value))
                      ELSE config.scale.value
           complex_packing == IF config.complex_packing.state = Missing THEN FALSE
                              ELSE config.complex_packing.value
           parms == SealParms(config.poly_modulus_degree.value,
                              config.coeff_modulus.value)
       IN IF ValidateParameters(config.scheme_name, parms, config.security_level.value,
                                config.context_valid) # "ok"
            THEN [status |-> "ngraph_error", parms |-> <<>>]
            ELSE [status |-> "ok",
                  parms |-> EncryptionParameters(config.scheme_name, parms,
                                                 config.security_level.value, scale,
                                                 complex_packing)]

NoJson ==
  [kind |-> "null", scheme_name |-> Missing,
   poly_modulus_degree |-> JsonField(Missing, 0),
   security_level |-> JsonField(Missing, 0),
   coeff_modulus |-> JsonField(Missing, <<>>),
   scale |-> JsonField(Missing, 0),
   complex_packing |-> JsonField(Missing, FALSE),
   create_ok |-> TRUE, context_valid |-> TRUE]

\* the configurations: no string, the empty string, a string that is not
\* JSON, and JSON objects
Configs ==
  {[NoJson EXCEPT !.kind = k] : k \in {"null", "empty", "not json"}}
    \cup [kind : {"json"},
          scheme_name : {"HE_SEAL", "CKKS", Missing},
          poly_modulus_degree :
            {JsonField("given", 1024), JsonField("given", 512), JsonField(Missing, 0),
             JsonField(WrongType, 0)},
          security_level :
            {JsonField("given", 0), JsonField("given", 128), JsonField("given", 42),
             JsonField(Missing, 0)},
          coeff_modulus :
            {JsonField("given", <<30>>), JsonField("given", <<20, 30>>),
             JsonField("given", <<30, 20, 30>>),
             JsonField("given", <<30, 30, 30, 30, 30>>), JsonField(Missing, <<>>)},
          scale :
            {JsonField("given", 16777216), JsonField(Missing, 0), JsonField(WrongType, 0)},
          complex_packing :
            {JsonField("given", TRUE), JsonField("given", FALSE),
             JsonField(Missing, FALSE), JsonField(WrongType, FALSE)},
          create_ok : BOOLEAN,
          context_valid : BOOLEAN]

ConfigInit ==
  /\ ProtocolIdle
  /\ DispatchIdle
  /\ LivenessIdle
  /\ KernelIdle
  /\ LimbIdle
  /\ ScaleIdle
  /\ BindIdle
  /\ HandleIdle
  /\ p_args \in Configs
  /\ p_parms = <<>>
  /\ p_status = "none"
  /\ p_stream = <<>>
  /\ p_loaded = <<>>
  /\ p_load_status = "none"
  /\ p_level = <<>>

\* a call of parse_config_or_use_default
CallParseConfig ==
  /\ p_status = "none"
  /\ p_status' = ParseConfigOrUseDefault(p_args).status
  /\ p_parms' = ParseConfigOrUseDefault(p_args).parms
  /\ UNCHANGED <<p_args, p_stream, p_loaded, p_load_status, p_level, parmsRest>>

ConfigNext == CallParseConfig

ConfigSpec == ConfigInit /\ [][ConfigNext]_vars

\* the moduli of the configuration, as the library created them
ConfigModuli == CoeffModulusCreate(p_args.coeff_modulus.value)

\* the scale the claim derives from the moduli by their count
ScaleByCount ==
  CASE Len(ConfigModuli) >= 3 -> ConfigModuli[Len(ConfigModuli) - 1]
    [] Len(ConfigModuli) = 2 -> ConfigModuli[2] \div 4096
    [] OTHER -> Sqrt(ConfigModuli[1] \div 256)

\* a required field is missing or of the wrong type, an optional one is of
\* the wrong type, a value is outside its valid set, or the library rejects
\* the parameters
ConfigInvalid ==
  \/ p_args.scheme_name = Missing \/ ~Given(p_args.poly_modulus_degree)
  \/ ~Given(p_args.security_level) \/ ~Given(p_args.coeff_modulus)
  \/ p_args.scale.state = WrongType \/ p_args.complex_packing.state = WrongType
  \/ p_args.poly_modulus_degree.value \notin {1024, 2048, 4096, 8192, 16384, 32768}
  \/ p_args.security_level.value \notin {0, 128, 192, 256}
  \/ ~p_args.create_ok \/ ~p_args.context_valid

\* C34: for no configuration or an empty one parse_config_or_use_default
\* returns the default parameters; for a JSON object it returns the given
\* fields with the given scale, or the scale derived from the moduli by
\* their count, and complex_packing false unless given; it raises for a
\* string that is not JSON, a scheme name other than HE_SEAL and a missing
\* or invalid field
C34_ParseConfig ==
  p_status # "none" =>
    /\ p_args.kind \in {"null", "empty"} =>
         /\ p_status = "ok"
         /\ p_parms = [m_scheme_name |-> "HE_SEAL",
                       m_seal_encryption_parameters |->
                         [poly_modulus_degree |-> 1024,
                          coeff_modulus |-> <<30, 30, 30, 30, 30>>],
                       m_security_level |-> 0,
                       m_scale |-> 1073741824,
                       m_complex_packing |-> FALSE]
    /\ p_args.kind = "not json" => p_status = "ngraph_error"
    /\ p_args.kind = "json" =>
         /\ (p_status = "ngraph_error")
              <=> (p_args.scheme_name # "HE_SEAL" \/ ConfigInvalid)
         /\ p_status = "ok" =>
              /\ p_parms.m_scheme_name = "HE_SEAL"
              /\ p_parms.m_seal_encryption_parameters.poly_modulus_degree
                   = p_args.poly_modulus_degree.value
              /\ p_parms.m_seal_encryption_parameters.coeff_modulus
                   = p_args.coeff_modulus.value
              /\ p_parms.m_security_level = p_args.security_level.value
              /\ p_parms.m_scale = (IF Given(p_args.scale) THEN p_args.scale.value
                                    ELSE ScaleByCount)
              /\ p_parms.m_complex_packing = (IF Given(p_args.complex_packing)
                                                THEN p_args.complex_packing.value
                                                ELSE FALSE)
    /\ p_status \in {"ok", "ngraph_error"}

\* a configuration of three moduli without a scale was parsed
C34_Witness ==
  /\ p_status = "ok" /\ p_args.kind = "json"
  /\ p_args.coeff_modulus.value = <<30, 20, 30>> /\ p_args.scale.state = Missing
  /\ p_parms.m_scale = 1048576 /\ ~p_parms.m_complex_packing

----------------------------------------------------------------------------
(* C31: the chain index of the slots a Relu / BoundedRelu ships *)

\* a client-aided Relu / BoundedRelu on an input tensor whose slots are a
\* plaintext or ciphertexts at any chain indices; nothing is shipped yet
ShipInit ==
  /\ KernelInit
  /\ k_flags.family = "relu"

\* handle_server_relu_op: the ciphertext slots of the next batch are copied
\* from the input tensor and written to the client as one request; k_out
\* collects the slots shipped so far
ShipReluBatch ==
  /\ k_flags.family = "relu"
  /\ k_status = "ok"
  /\ Len(k_out) < Len(UnknownReluIdx(k_arg0))
  /\ k_out' = k_out \o Gather(k_arg0, ReluBatchIdx(UnknownReluIdx(k_arg0), Len(k_out)))
  /\ UNCHANGED <<generateCallsVars, k_arg0, k_arg1, k_flags, k_status, k_pre, smallest_ind>>
  /\ UNCHANGED <<protocolVars, livenessVars, limbVars, utilVars>>

ShipNext == MatchReluInput \/ ShipReluBatch

ShipSpec == ShipInit /\ [][ShipNext]_vars

\* the chain indices of the ciphertext slots of the input before the op
PreChains == {k_pre[1][i].chain : i \in PreCipherIdx}

\* C31: every ciphertext slot one Relu / BoundedRelu ships to the client is
\* at the least chain index the ciphertext slots of its input had before
\* the op, and no slot is shipped before the input has been matched
C31_ShippedAtSmallestChainIndex ==
  /\ [](k_out # <<>> =>
          /\ MatchDone
          /\ \A i \in 1..Len(k_out) :
               /\ k_out[i].tag = "cipher"
               /\ k_out[i].chain \in PreChains
               /\ \A c \in PreChains : k_out[i].chain <= c)
  /\ [][k_out' # k_out => MatchDone]_vars

\* two batches were shipped from an input whose ciphertext slots were at
\* different chain indices
C31_Witness ==
  /\ MatchDone /\ Len(k_out) = NumSlots
  /\ k_pre[1][1].chain = MaxChainIndex /\ k_pre[1][NumSlots].chain = 1
  /\ \A i \in 1..NumSlots : k_out[i].chain = 1
====
